---- MODULE Spec2Model ----
(***************************************************************************)
(* A model of the MCP insurance-policy assistant: the /mcp/query handler,  *)
(* MCPController.process_request and the tools it drives.                   *)
(*                                                                          *)
(* Conventions.  Python strings are TLA+ strings (TLC evaluates Len, SubSeq *)
(* and \o on them).  Python's None is the string "None".  A dict is a       *)
(* record; the empty dict is the empty function <<>>.  An Optional[List]    *)
(* is a sequence: the code only ever tests such a value for truthiness, and *)
(* None and [] are both falsy.                                              *)
(***************************************************************************)
EXTENDS Integers, Sequences, FiniteSets, TLC

None == "None"

(***************************************************************************)
(* Bounds of the model.                                                     *)
(***************************************************************************)
MaxRequests == 2
MaxIntents == 4
MaxWords == 3

MaxInflight == 2

(***************************************************************************)
(* String helpers: Python's `in`, str.lower, str.strip, str.join.           *)
(***************************************************************************)
Contains(hay, needle) ==
    \E i \in 1..(Len(hay) - Len(needle) + 1) :
        SubSeq(hay, i, i + Len(needle) - 1) = needle

UpperChars == "ABCDEFGHIJKLMNOPQRSTUVWXYZ"
LowerChars == "abcdefghijklmnopqrstuvwxyz"

CharAt(s, i) == SubSeq(s, i, i)

Chars(s) == {CharAt(s, k) : k \in 1..Len(s)}

ToLower ==
    [c \in Chars(UpperChars) |->
        CharAt(LowerChars, CHOOSE k \in 1..Len(UpperChars) : CharAt(UpperChars, k) = c)]

ToUpper ==
    [c \in Chars(LowerChars) |->
        CharAt(UpperChars, CHOOSE k \in 1..Len(LowerChars) : CharAt(LowerChars, k) = c)]

LowerChar(c) == IF c \in DOMAIN ToLower THEN ToLower[c] ELSE c

UpperChar(c) == IF c \in DOMAIN ToUpper THEN ToUpper[c] ELSE c

IsAlpha(c) == c \in DOMAIN ToLower \/ c \in DOMAIN ToUpper

RECURSIVE LowerFrom(_, _)
LowerFrom(s, i) ==
    IF i > Len(s) THEN "" ELSE LowerChar(CharAt(s, i)) \o LowerFrom(s, i + 1)

Lower(s) == LowerFrom(s, 1)

\* A faulty variant of IsBlank: the question is not stripped.
IsBlankEmptyOnly(s) == s = ""

IsBlank(s) == \A i \in 1..Len(s) : CharAt(s, i) = " "

RECURSIVE JoinFrom(_, _, _)
JoinFrom(lines, sep, i) ==
    IF i > Len(lines) THEN ""
    ELSE IF i = Len(lines) THEN lines[i]
    ELSE lines[i] \o sep \o JoinFrom(lines, sep, i + 1)

Join(lines, sep) == JoinFrom(lines, sep, 1)

Truthy(d) == DOMAIN d # {}

(***************************************************************************)
(* protocol.py: ToolType and the controller's tool registry.                *)
(***************************************************************************)
VECTOR_SEARCH == "vector_search"
INTENT_DETECTION == "intent_detection"
POLICY_LOOKUP == "policy_lookup"
FAQ_LOOKUP == "faq_lookup"
COVERAGE_COMPARISON == "coverage_comparison"
ACTION_RECOMMENDER == "action_recommender"
USER_POLICY == "user_policy"

ToolType ==
    {VECTOR_SEARCH, INTENT_DETECTION, POLICY_LOOKUP, FAQ_LOOKUP,
     COVERAGE_COMPARISON, ACTION_RECOMMENDER, USER_POLICY}

\* A faulty variant of RegisteredTools: every tool type has an entry.
AllToolTypesRegistered == ToolType

RegisteredTools == {INTENT_DETECTION, VECTOR_SEARCH, ACTION_RECOMMENDER, USER_POLICY}

ToolCall(tt, params) == [tool_type |-> tt, parameters |-> params]

ToolResponse(tt, res, err) == [tool_type |-> tt, result |-> res, error |-> err]

Get(d, k, default) == IF k \in DOMAIN d THEN d[k] ELSE default

StrTruthy(s) == s # None /\ s # ""

(***************************************************************************)
(* The policy store (data/user_details.json): records in file order.       *)
(***************************************************************************)
TravelPolicy ==
    [policy_details |->
        [policy_number |-> "trv-1", product_name |-> "Travel Insurance"],
     proposer_details |-> [name |-> "Asha Rao", email_id |-> "asha@mail.in"],
     coverages |->
        << [cover_name |-> "Baggage Loss", benefits |-> "Lost bags",
            sum_insured |-> "500", deductibles |-> "50"],
           [benefits |-> "Trip delay"] >>]

HealthPolicy ==
    [policy_details |->
        [policy_number |-> "hlt-2", alternative_policy_number |-> "alt-2",
         product_name |-> "Health Elevate"],
     insured_details |-> [name |-> "Ravi Rao"]]

BarePolicy ==
    [policy_details |-> [policy_number |-> "gen-3"],
     proposer_details |-> [name |-> "Meera Nair"]]

UserDetails == << TravelPolicy, HealthPolicy, BarePolicy >>

(***************************************************************************)
(* ResourceLoader.get_user_policy_details: the first record, in storage     *)
(* order, that matches by policy id, product name or user name/email.       *)
(***************************************************************************)
RecordMatches(details, policy_id, user_id, product_name) ==
    LET policy_details == Get(details, "policy_details", <<>>)
        proposer_details == Get(details, "proposer_details", <<>>)
    IN  \/ /\ StrTruthy(policy_id)
           /\ \/ policy_id = Get(policy_details, "policy_number", None)
              \/ policy_id = Get(policy_details, "alternative_policy_number", None)
        \/ /\ StrTruthy(product_name)
           /\ Contains(Lower(Get(policy_details, "product_name", "")), Lower(product_name))
        \/ /\ StrTruthy(user_id)
           /\ \/ Contains(Lower(Get(proposer_details, "name", "")), Lower(user_id))
              \/ Contains(Lower(Get(proposer_details, "email_id", "")), Lower(user_id))

get_user_policy_details(policy_id, user_id, product_name) ==
    LET hits == {i \in 1..Len(UserDetails) :
                    RecordMatches(UserDetails[i], policy_id, user_id, product_name)}
    IN  IF hits = {} THEN <<>>
        ELSE UserDetails[CHOOSE i \in hits : \A j \in hits : i <= j]

(***************************************************************************)
(* UserPolicyTool.run: look the policy up and filter it by query_type.      *)
(***************************************************************************)
\* A faulty variant of FilterByQueryType: the whole record, whatever the type.
FilterByQueryTypeWhole(policy_details, query_type) == policy_details

FilterByQueryType(policy_details, query_type) ==
    CASE query_type = "full" -> policy_details
      [] query_type = "coverage" ->
            [coverages |-> Get(policy_details, "coverages", <<>>)]
      [] query_type = "proposer" ->
            [proposer_details |-> Get(policy_details, "proposer_details", <<>>)]
      [] query_type = "policy" ->
            [policy_details |-> Get(policy_details, "policy_details", <<>>)]
      [] query_type = "insured" ->
            [insured_details |-> Get(policy_details, "insured_details", <<>>)]
      [] OTHER -> <<>>

UserPolicyTool_run(policy_id, user_name, product_name, query_type) ==
    LET policy_details == get_user_policy_details(policy_id, user_name, product_name)
    IN  IF ~Truthy(policy_details)
        THEN [result |-> <<>>, error |-> "No matching policy found"]
        ELSE [result |-> FilterByQueryType(policy_details, query_type), error |-> None]

(***************************************************************************)
(* UserPolicyTool.get_coverage_details: the coverages of a policy, or the   *)
(* first one whose cover_name contains coverage_name.  The guard tests      *)
(* whether run's answer HAS an "error" key, which it always has.            *)
(***************************************************************************)
CoverageNameMatches(coverage, coverage_name) ==
    Contains(Lower(Get(coverage, "cover_name", "")), Lower(coverage_name))

get_coverage_details(policy_id, coverage_name) ==
    LET policy_info == UserPolicyTool_run(policy_id, None, None, "coverage")
    IN  IF ~Truthy(policy_info.result) \/ "error" \in DOMAIN policy_info
        THEN [result |-> <<>>, error |-> "Policy not found"]
        ELSE LET coverages == Get(policy_info.result, "coverages", <<>>)
                 found == {k \in 1..Len(coverages) :
                              CoverageNameMatches(coverages[k], coverage_name)}
             IN  IF ~StrTruthy(coverage_name)
                 THEN [result |-> [coverages |-> coverages], error |-> None]
                 ELSE IF found # {}
                 THEN [result |-> [coverage |->
                          coverages[CHOOSE k \in found : \A j \in found : k <= j]],
                       error |-> None]
                 ELSE [result |-> <<>>,
                       error |-> "Coverage '" \o coverage_name \o "' not found in policy"]

(***************************************************************************)
(* MCPController._format_policy_data: the policy record as prose.  A        *)
(* section's fields are listed in the record's key order (KeyOrder).        *)
(***************************************************************************)
KeyOrder ==
    << "policy_number", "alternative_policy_number", "product_name",
       "name", "email_id" >>

RECURSIVE TitleFrom(_, _, _)
TitleFrom(s, i, prevAlpha) ==
    IF i > Len(s) THEN ""
    ELSE LET c == IF CharAt(s, i) = "_" THEN " " ELSE CharAt(s, i)
             t == IF prevAlpha THEN LowerChar(c) ELSE UpperChar(c)
         IN  t \o TitleFrom(s, i + 1, IsAlpha(c))

FormatKey(key) == TitleFrom(key, 1, FALSE)

RECURSIVE SectionLines(_, _)
SectionLines(section, i) ==
    IF i > Len(KeyOrder) THEN <<>>
    ELSE (IF KeyOrder[i] \in DOMAIN section
          THEN << "- " \o FormatKey(KeyOrder[i]) \o ": " \o section[KeyOrder[i]] >>
          ELSE <<>>)
         \o SectionLines(section, i + 1)

\* A faulty variant of CoverageLines: a missing field is rendered as nothing.
RECURSIVE CoverageLinesBlankDefaults(_, _)
CoverageLinesBlankDefaults(coverages, i) ==
    IF i > Len(coverages) THEN <<>>
    ELSE << "\n- " \o Get(coverages[i], "cover_name", ""),
            "  Benefits: " \o Get(coverages[i], "benefits", ""),
            "  Sum Insured: " \o Get(coverages[i], "sum_insured", ""),
            "  Deductibles: " \o Get(coverages[i], "deductibles", "") >>
         \o CoverageLinesBlankDefaults(coverages, i + 1)

RECURSIVE CoverageLines(_, _)
CoverageLines(coverages, i) ==
    IF i > Len(coverages) THEN <<>>
    ELSE << "\n- " \o Get(coverages[i], "cover_name", "Unknown"),
            "  Benefits: " \o Get(coverages[i], "benefits", "Not specified"),
            "  Sum Insured: " \o Get(coverages[i], "sum_insured", "Not specified"),
            "  Deductibles: " \o Get(coverages[i], "deductibles", "Not specified") >>
         \o CoverageLines(coverages, i + 1)

FormattedLines(policy_data) ==
    (IF "policy_details" \in DOMAIN policy_data
     THEN << "POLICY DETAILS:" >> \o SectionLines(policy_data["policy_details"], 1)
     ELSE <<>>)
    \o (IF "proposer_details" \in DOMAIN policy_data
        THEN << "\nPROPOSER DETAILS:" >> \o SectionLines(policy_data["proposer_details"], 1)
        ELSE <<>>)
    \o (IF "insured_details" \in DOMAIN policy_data
        THEN << "\nINSURED DETAILS:" >> \o SectionLines(policy_data["insured_details"], 1)
        ELSE <<>>)
    \o (IF "coverages" \in DOMAIN policy_data
        THEN << "\nCOVERAGES:" >> \o CoverageLines(policy_data["coverages"], 1)
        ELSE <<>>)

_format_policy_data(policy_data) == Join(FormattedLines(policy_data), "\n")

(***************************************************************************)
(* IntentDetectionTool.run.  The classification service answers with a     *)
(* behaviour: [kind |-> "ok", body |-> the parsed JSON list], or a          *)
(* non-200 status, a timeout / transport error, or a body that is no list   *)
(* of dicts.  An intent entry is a record whose DOMAIN is its key set.      *)
(***************************************************************************)
SentinelIntent == [intent |-> None, route |-> None, score |-> 0]

ScoreKey(x) == Get(x, "score", 0)

\* sorted(..., reverse=True): stable, equal keys keep their original order.
RECURSIVE InsertDesc(_, _)
InsertDesc(sorted, x) ==
    IF sorted = <<>> THEN << x >>
    ELSE IF ScoreKey(Head(sorted)) >= ScoreKey(x)
         THEN << Head(sorted) >> \o InsertDesc(Tail(sorted), x)
         ELSE << x >> \o sorted

RECURSIVE SortedDescFrom(_, _, _)
SortedDescFrom(intents, i, acc) ==
    IF i > Len(intents) THEN acc
    ELSE SortedDescFrom(intents, i + 1, InsertDesc(acc, intents[i]))

SortedDesc(intents) == SortedDescFrom(intents, 1, <<>>)

TopK(s, k) == SubSeq(s, 1, IF Len(s) < k THEN Len(s) ELSE k)

\* A faulty variant of TopIntents: the first three entries as the service
\* listed them, without the sort.
TopIntentsUnsorted(intents) == TopK(intents, 3)

TopIntents(intents) == TopK(SortedDesc(intents), 3)

\* The log lines index ['intent'] and ['score'] of every returned entry.
LoggingRaises(top_intents) ==
    \E i \in 1..Len(top_intents) :
        ~({"intent", "score"} \subseteq DOMAIN top_intents[i])

IntentDetectionTool_run(service) ==
    IF service.kind = "ok" /\ Len(service.body) > 0
    THEN IF LoggingRaises(TopIntents(service.body))
         THEN << SentinelIntent >>
         ELSE TopIntents(service.body)
    ELSE << SentinelIntent >>

(***************************************************************************)
(* ActionRecommenderTool: keyword and pattern matching on the query.        *)
(***************************************************************************)
AnyIn(keywords, text) == \E k \in keywords : Contains(text, k)

\* _extract_policy_type: the first policy type, in dict order, with a keyword.
_extract_policy_type(query) ==
    LET query_lower == Lower(query)
    IN  IF AnyIn({"travel", "trip", "journey", "vacation", "holiday"}, query_lower)
        THEN "travel"
        ELSE IF AnyIn({"health", "medical", "healthcare", "elevate", "standard"}, query_lower)
        THEN "health"
        ELSE IF AnyIn({"auto", "car", "vehicle", "motor"}, query_lower)
        THEN "motor"
        ELSE IF AnyIn({"home", "house", "property", "renters"}, query_lower)
        THEN "home"
        ELSE "travel"

\* re.search(r"policy (?:number|id)?\s*[:#]?\s*([\w\/\-]+)", text): group 1 of
\* the leftmost match, or None.
IdChars == "abcdefghijklmnopqrstuvwxyzABCDEFGHIJKLMNOPQRSTUVWXYZ0123456789_/-"

IsIdChar(s, j) == j >= 1 /\ j <= Len(s) /\ Contains(IdChars, CharAt(s, j))

RECURSIVE SkipSpaces(_, _)
SkipSpaces(s, j) ==
    IF j <= Len(s) /\ CharAt(s, j) = " " THEN SkipSpaces(s, j + 1) ELSE j

RECURSIVE CaptureEnd(_, _)
CaptureEnd(s, j) == IF IsIdChar(s, j + 1) THEN CaptureEnd(s, j + 1) ELSE j

\* \s*[:#]?\s*([\w\/\-]+) matched at position j.
IdTail(s, j) ==
    LET j1 == SkipSpaces(s, j)
        j2 == IF j1 <= Len(s) /\ CharAt(s, j1) \in {":", "#"} THEN j1 + 1 ELSE j1
        j3 == SkipSpaces(s, j2)
    IN  IF IsIdChar(s, j3) THEN SubSeq(s, j3, CaptureEnd(s, j3)) ELSE None

StartsAt(s, j, word) ==
    j + Len(word) - 1 <= Len(s) /\ SubSeq(s, j, j + Len(word) - 1) = word

PolicyIdAt(s, i) ==
    LET j == i + Len("policy ")
        withNumber == IF StartsAt(s, j, "number") THEN IdTail(s, j + Len("number")) ELSE None
        withId == IF StartsAt(s, j, "id") THEN IdTail(s, j + Len("id")) ELSE None
    IN  IF ~StartsAt(s, i, "policy ") THEN None
        ELSE IF withNumber # None THEN withNumber
        ELSE IF withId # None THEN withId
        ELSE IdTail(s, j)

ExtractPolicyId(text) ==
    LET starts == {i \in 1..Len(text) : PolicyIdAt(text, i) # None}
    IN  IF starts = {} THEN None
        ELSE PolicyIdAt(text, CHOOSE i \in starts : \A k \in starts : i <= k)

MyPolicyKeywords == {"my", "details", "policy", "number", "coverage", "plan", "insurance"}

\* A faulty variant of RecommendedQueryType: query_type is left unset.
RecommendedQueryTypeUnset(query_lower) == None

RecommendedQueryType(query_lower) ==
    IF AnyIn({"coverage", "benefit", "cover"}, query_lower) THEN "coverage"
    ELSE IF AnyIn({"my details", "personal info", "personal details", "proposer"}, query_lower)
    THEN "proposer"
    ELSE "full"

\* A faulty variant of RecommenderFallback: the except branch returns no call.
RecommenderFallbackEmpty(query) == <<>>

\* run, lines 132-139: what the except branch returns.
RecommenderFallback(query) ==
    << [tool_type |-> VECTOR_SEARCH, parameters |-> [query |-> query]] >>

\* run with a str query: the try block, lines 82-130.
RecommendedTools(query) ==
    LET policy_type == _extract_policy_type(query)
        user_query_likely == AnyIn(MyPolicyKeywords, Lower(query))
        policy_id == ExtractPolicyId(Lower(query))
        vector_call ==
            [tool_type |-> VECTOR_SEARCH, parameters |-> [query |-> query, top_k |-> 3]]
        policy_call ==
            [tool_type |-> USER_POLICY,
             parameters |->
                [policy_id |-> policy_id,
                 query_type |-> RecommendedQueryType(Lower(query)),
                 product_name |->
                    IF policy_type \in {"travel", "health"} THEN policy_type ELSE None]]
    IN  IF policy_id # None \/ user_query_likely
        THEN << policy_call, vector_call >>
        ELSE << vector_call >>

\* A query that is no str (None) makes query.lower() raise inside the try
\* block: run logs the error and returns the fallback.
ActionRecommenderTool_run(query) ==
    IF query = None THEN RecommenderFallback(query) ELSE RecommendedTools(query)

(***************************************************************************)
(* Inputs of the model: what callers send, and what the collaborators      *)
(* (vector index, classification service, generation engine) answer.        *)
(***************************************************************************)
Questions == {"", "  ", "explain deductibles", "my policy number trv-1"}

ChatHistories == { <<>>, << [role |-> "user", content |-> "earlier question"] >> }

UnknownSessionId == "zz"

UserPolicyCall(params) == ToolCall(USER_POLICY, params)

ExplicitToolLists ==
    { <<>>,
      << UserPolicyCall([policy_id |-> "alt-2", query_type |-> "policy"]),
         UserPolicyCall([policy_id |-> "gen-3"]) >>,
      << UserPolicyCall([policy_id |-> "nope"]),
         UserPolicyCall([policy |-> "trv-1"]),
         ToolCall(POLICY_LOOKUP, [policy_id |-> "trv-1"]),
         ToolCall(VECTOR_SEARCH, [query |-> "deductibles"]) >>,
      << ToolCall(FAQ_LOOKUP, [question |-> "claims"]),
         ToolCall(ACTION_RECOMMENDER, [query |-> None]),
         ToolCall(COVERAGE_COMPARISON, <<>>),
         ToolCall(ACTION_RECOMMENDER, [query |-> "my coverage"]) >>,
      << ToolCall(INTENT_DETECTION, [query |-> "explain deductibles"]) >> }

DocA == [score |-> 9, text |-> "Deductibles apply per claim.",
         source |-> "travel_insurance.pdf", doc_type |-> "Travel Insurance"]
DocA2 == [score |-> 8, text |-> "Baggage cover excludes cash.",
          source |-> "travel_insurance.pdf", doc_type |-> "Travel Insurance"]
DocB == [score |-> 7, text |-> "Hospital cash benefit.",
         source |-> "health_insurance.pdf", doc_type |-> "Health Insurance"]
DocUP == [score |-> 6, text |-> "How to read your policy.",
          source |-> "User Policy", doc_type |-> "Personal Policy Details"]

\* What the vector index may return for top_k = 3 (<<>> also stands for a
\* failed search: VectorSearchTool.run turns every failure into []).
VectorResultLists == { <<>>, << DocA, DocA2, DocB >>, << DocB, DocUP >> }

\* What it may return to a VectorSearch call of the tool list.
ToolVectorResultLists == { <<>>, << DocA >> }

\* The vector index answers with one of the lists, or the query fails.
VectorIndexBehaviours(lists) ==
    { [kind |-> "error", matches |-> <<>>] } \cup { [kind |-> "ok", matches |-> r] : r \in lists }

\* EmbeddingService.query_similar: the matches, or [] on any failure.
query_similar(index) == IF index.kind = "ok" THEN index.matches ELSE <<>>

\* VectorSearchTool.run: what query_similar returns.
VectorSearchTool_run(index) == query_similar(index)

\* One call to an external service: which service, with which query, made
\* by the pipeline itself or for a call of the tool list, and whether it
\* failed.
ServiceCall(to, query, by, failed) == [to |-> to, query |-> query, by |-> by, failed |-> failed]

IntentA == [intent |-> "claim_status", route |-> "claims", score |-> 9]
IntentB == [intent |-> "policy_info", score |-> 9]
IntentC == [intent |-> "renewal", score |-> 4]
IntentD == [route |-> "misc", score |-> 6]
IntentE == [intent |-> "greeting", route |-> "smalltalk"]

IntentServiceBehaviours ==
    { [kind |-> "timeout", body |-> <<>>],
      [kind |-> "ok", body |-> << IntentC, IntentA >>],
      [kind |-> "ok", body |-> << IntentC, IntentB >>] }

GenerationOutcomes == {"ok", "error"}

GeneratedAnswer == "Here is what your policy says."
ApologyAnswer == "Sorry, I encountered an error: service unavailable"

(***************************************************************************)
(* tool.run with the call's parameters as keyword arguments: Python binds   *)
(* the map to the tool's signature and raises TypeError on an unknown or    *)
(* missing name.                                                            *)
(* `results` is what the vector index returns, `service` how the            *)
(* classification service behaves, should the tool consult them.            *)
(***************************************************************************)
BindsTo(params, accepted, required) ==
    DOMAIN params \subseteq accepted /\ required \subseteq DOMAIN params

\* A faulty variant of ToolRun: a failing call is answered without an error.
ToolRunSwallowing(tool_call, results, service) ==
    ToolResponse(tool_call.tool_type, None, None)

ToolRun(tool_call, results, service) ==
    LET p == tool_call.parameters
        tt == tool_call.tool_type
        bound ==
            CASE tt = USER_POLICY ->
                    BindsTo(p, {"policy_id", "user_name", "product_name", "query_type"}, {})
              [] tt = VECTOR_SEARCH ->
                    BindsTo(p, {"query", "top_k", "filter_criteria"}, {"query"})
              [] OTHER -> BindsTo(p, {"query"}, {"query"})
        result ==
            CASE tt = USER_POLICY ->
                    UserPolicyTool_run(Get(p, "policy_id", None), Get(p, "user_name", None),
                                       Get(p, "product_name", None), Get(p, "query_type", "full"))
              [] tt = VECTOR_SEARCH -> results
              [] tt = INTENT_DETECTION -> IntentDetectionTool_run(service)
              [] OTHER -> ActionRecommenderTool_run(p.query)
    IN  IF bound THEN ToolResponse(tt, result, None)
        ELSE ToolResponse(tt, None, "TypeError: unexpected or missing keyword argument")

(***************************************************************************)
(* process_request, lines 126-150: policy-context fusion.                   *)
(***************************************************************************)
IsPolicyResult(tool_result) ==
    /\ tool_result.tool_type = USER_POLICY
    /\ tool_result.error = None
    /\ Truthy(tool_result.result)
    /\ "result" \in DOMAIN tool_result.result
    /\ Truthy(tool_result.result.result)

PolicyContext(policy_data) ==
    LET product_name ==
            IF /\ "policy_details" \in DOMAIN policy_data
               /\ "product_name" \in DOMAIN policy_data["policy_details"]
            THEN policy_data["policy_details"]["product_name"]
            ELSE None
    IN  [source |-> "User Policy: " \o
                    (IF StrTruthy(product_name) THEN product_name ELSE "Personal Policy"),
         doc_type |-> "User Policy Details",
         text |-> _format_policy_data(policy_data)]

RECURSIVE FuseFrom(_, _, _)
FuseFrom(tool_results, i, context_results) ==
    IF i > Len(tool_results) THEN context_results
    ELSE FuseFrom(tool_results, i + 1,
                  IF IsPolicyResult(tool_results[i])
                  THEN << PolicyContext(tool_results[i].result.result) >> \o context_results
                  ELSE context_results)

\* A faulty variant of FusePolicyContext: the policy context replaces the
\* context list instead of being inserted in it.
FusePolicyContextReplacing(tool_results, context_results) ==
    IF \E i \in 1..Len(tool_results) : IsPolicyResult(tool_results[i])
    THEN FuseFrom(tool_results, 1, <<>>)
    ELSE context_results

FusePolicyContext(tool_results, context_results) == FuseFrom(tool_results, 1, context_results)

\* A faulty variant of PolicySourceAdded: the flag is set as soon as a
\* UserPolicy call was made, whatever it found.
PolicySourceAddedOnAnyCall(tool_results) ==
    \E i \in 1..Len(tool_results) : tool_results[i].tool_type = USER_POLICY

PolicySourceAdded(tool_results) ==
    \E i \in 1..Len(tool_results) : IsPolicyResult(tool_results[i])

(***************************************************************************)
(* process_request, lines 155-176: the system prompt with intent hints      *)
(* (BasePrompt stands for the fixed instruction text of lines 156-163).     *)
(***************************************************************************)
BasePrompt == "You are an insurance policy assistant."

RECURSIVE SecondaryIntents(_, _)
SecondaryIntents(detected_intent, i) ==
    IF i > Len(detected_intent) THEN <<>>
    ELSE (IF StrTruthy(Get(detected_intent[i], "intent", None))
          THEN << detected_intent[i].intent >> ELSE <<>>)
         \o SecondaryIntents(detected_intent, i + 1)

SystemPrompt(detected_intent) ==
    LET primary ==
            IF Len(detected_intent) > 0 /\ StrTruthy(Get(detected_intent[1], "intent", None))
            THEN "\n\nI detected that the user's primary intent may be: " \o detected_intent[1].intent
                 \o ". Consider this when providing your response."
            ELSE ""
        secondary == SecondaryIntents(detected_intent, 2)
    IN  BasePrompt \o primary \o
        (IF secondary # <<>>
         THEN "\n\nAlternative intents to consider: " \o Join(secondary, ", ") \o "."
         ELSE "")

(***************************************************************************)
(* process_request, lines 185-203: source extraction.                       *)
(***************************************************************************)
InSeq(x, s) == \E i \in 1..Len(s) : s[i] = x

SourceOf(result) ==
    [name |-> Get(result, "source", "Unknown"), type |-> Get(result, "doc_type", "Unknown")]

RECURSIVE DedupSources(_, _, _)
DedupSources(context_results, i, sources) ==
    IF i > Len(context_results) THEN sources
    ELSE DedupSources(context_results, i + 1,
                      IF InSeq(SourceOf(context_results[i]), sources) THEN sources
                      ELSE Append(sources, SourceOf(context_results[i])))

UserSource == [name |-> "User Policy", type |-> "Personal Policy Details"]

\* A faulty variant of ExtractSources: the user policy source is inserted
\* without looking whether the list already holds it.
ExtractSourcesUnchecked(context_results, user_policy_source_added) ==
    IF user_policy_source_added
    THEN << UserSource >> \o DedupSources(context_results, 1, <<>>)
    ELSE DedupSources(context_results, 1, <<>>)

ExtractSources(context_results, user_policy_source_added) ==
    LET sources == DedupSources(context_results, 1, <<>>)
    IN  IF user_policy_source_added /\ ~InSeq(UserSource, sources)
        THEN << UserSource >> \o sources
        ELSE sources

(***************************************************************************)
(* protocol.py, MCPResponse: detected_intent is declared                    *)
(* Optional[Dict[str, Any]] and process_request passes it a list.           *)
(* pydantic 2 rejects every list for a Dict field.  pydantic 1 tries        *)
(* dict(value), which succeeds only when every element of the list yields   *)
(* exactly two items (an entry with exactly two keys), and then stores the  *)
(* dict {first key: second key}.  Which pydantic the build installs is not  *)
(* fixed by the repository: pydantic_v1 is chosen at start-up.              *)
(***************************************************************************)
IntentKeyOrder == << "intent", "route", "score" >>

KeysInOrder(entry) == SelectSeq(IntentKeyOrder, LAMBDA k : k \in DOMAIN entry)

DictCoercible(detected_intent) ==
    \A i \in 1..Len(detected_intent) : Cardinality(DOMAIN detected_intent[i]) = 2

RECURSIVE DictFrom(_, _)
DictFrom(detected_intent, i) ==
    IF i < 1 THEN <<>>
    ELSE LET ks == KeysInOrder(detected_intent[i])
         IN  (ks[1] :> ks[2]) @@ DictFrom(detected_intent, i - 1)

MCPResponseAccepts(detected_intent, v1) == v1 /\ DictCoercible(detected_intent)

MCPResponse(response, sources, tool_results, detected_intent) ==
    [response |-> response, sources |-> sources, tool_results |-> tool_results,
     detected_intent |->
        [type |-> "dict", value |-> DictFrom(detected_intent, Len(detected_intent))]]

\* api.py, MCPQueryResponse (the route's response_model): detected_intent
\* must be None or a list.
MCPQueryResponseAccepts(payload) == payload.detected_intent.type = "list"

MCPSession(id) == [session_id |-> id, history |-> <<>>, context |-> <<>>]

\* uuid.uuid4(): an identifier no earlier call returned.
Uuid(n) == "u" \o ToString(n)

Falsy(s) == s = None \/ s = ""

VARIABLES
    sessions,       \* mcp_controller.sessions: session id -> MCPSession
    minted,         \* how many uuids create_session has drawn
    served,         \* how many requests /mcp/query has received
    pydantic_v1,    \* the installed pydantic is version 1
    pc,             \* where the request being handled stands
    request,        \* the MCPQueryRequest
    session_id,     \* process_request's session_id
    tools,          \* mcp_request.tools, the working tool list
    ti,             \* index of the next tool call to execute
    detected_intent,
    tool_results,
    vector_results,
    context_results,
    user_policy_source_added,
    response_text,
    sources,
    mcp_response,
    http,           \* what the caller receives: [status, body]
    entry_sessions, \* sessions as they were when the request arrived
    vector_call,    \* arguments of the mandatory vector search, once made
    gen_call,       \* arguments of generate_response, once called
    rec_outcome,    \* what the recommender did for this request, once asked
    calls,          \* the calls to external services made for this request
    inflight,       \* requests accepted together: id -> [request, state, ...]
    probe           \* input and output of a function applied on its own

vars ==
    << sessions, minted, served, pydantic_v1, pc, request, session_id, tools, ti,
       detected_intent, tool_results, vector_results, context_results,
       user_policy_source_added, response_text, sources, mcp_response, http,
       entry_sessions, vector_call, gen_call, rec_outcome, calls, inflight, probe >>

globals == << sessions, minted, pydantic_v1 >>

NoRequest == [question |-> "", chat_history |-> <<>>, session_id |-> None, tools |-> <<>>]

NoResponse == [status |-> 0, body |-> <<>>]

NoProbe == [service |-> [kind |-> "none", body |-> <<>>], result |-> <<>>]

LocalsInit ==
    /\ session_id = None
    /\ tools = <<>>
    /\ ti = 1
    /\ detected_intent = <<>>
    /\ tool_results = <<>>
    /\ vector_results = <<>>
    /\ context_results = <<>>
    /\ user_policy_source_added = FALSE
    /\ response_text = ""
    /\ sources = <<>>
    /\ mcp_response = <<>>
    /\ http = NoResponse
    /\ vector_call = <<>>
    /\ gen_call = <<>>
    /\ rec_outcome = None
    /\ calls = <<>>

\* A fresh handler frame.
LocalsReset ==
    /\ session_id' = None
    /\ ti' = 1
    /\ detected_intent' = <<>>
    /\ tool_results' = <<>>
    /\ vector_results' = <<>>
    /\ context_results' = <<>>
    /\ user_policy_source_added' = FALSE
    /\ response_text' = ""
    /\ sources' = <<>>
    /\ mcp_response' = <<>>
    /\ vector_call' = <<>>
    /\ gen_call' = <<>>
    /\ rec_outcome' = None
    /\ calls' = <<>>

Init ==
    /\ sessions = <<>>
    /\ minted = 0
    /\ served = 0
    /\ pydantic_v1 \in BOOLEAN
    /\ pc = "idle"
    /\ request = NoRequest
    /\ entry_sessions = sessions
    /\ inflight = <<>>
    /\ probe = NoProbe
    /\ LocalsInit

(***************************************************************************)
(* mcp_query, lines 46-64: validate the question, convert the tools, build  *)
(* the MCPRequest.  The HTTPException(400) for an empty question is raised  *)
(* inside the handler's try block, whose `except Exception` turns it into   *)
(* HTTPException(500).                                                      *)
(***************************************************************************)
Receive ==
    /\ pc = "idle"
    /\ served < MaxRequests
    /\ \E question \in Questions, chat_history \in ChatHistories,
          sid \in {None, UnknownSessionId} \cup DOMAIN sessions,
          explicit \in ExplicitToolLists :
        /\ request' = [question |-> question, chat_history |-> chat_history,
                       session_id |-> sid, tools |-> explicit]
        /\ tools' = explicit
        /\ IF IsBlank(question)
           THEN /\ pc' = "responded"
                /\ http' = [status |-> 500,
                            body |-> [detail |-> "Error processing query: 400: Question cannot be empty"]]
           ELSE /\ pc' = "resolve"
                /\ http' = NoResponse
    /\ served' = served + 1
    /\ entry_sessions' = sessions
    /\ LocalsReset
    /\ UNCHANGED << globals, inflight, probe >>

(***************************************************************************)
(* MCPController.create_session and process_request, lines 52-61.           *)
(***************************************************************************)
create_session(store, n) == store @@ (Uuid(n + 1) :> MCPSession(Uuid(n + 1)))

\* A faulty variant of NeedsNewSession: a session is created for every
\* request, known session id or not.
NeedsNewSessionAlways(sid, store) == TRUE

NeedsNewSession(sid, store) == Falsy(sid) \/ sid \notin DOMAIN store

ResolveSession ==
    /\ pc = "resolve"
    /\ IF NeedsNewSession(request.session_id, sessions)
       THEN /\ sessions' = create_session(sessions, minted)
            /\ minted' = minted + 1
            /\ session_id' = Uuid(minted + 1)
       ELSE /\ session_id' = request.session_id
            /\ UNCHANGED << sessions, minted >>
    /\ pc' = "recommend"
    /\ UNCHANGED << served, pydantic_v1, request, tools, ti, detected_intent, tool_results,
                    vector_results, context_results, user_policy_source_added,
                    response_text, sources, mcp_response, http, entry_sessions,
                    vector_call, gen_call, rec_outcome,
                    calls, inflight, probe >>

(***************************************************************************)
(* process_request, lines 63-73: ask the action recommender when the caller *)
(* named no tools.  The call sits in a try block: should the registry's     *)
(* recommender raise (the shipped run catches its own exceptions, so this   *)
(* takes an exception that escapes its handler, or another recommender in   *)
(* the registry), the error is logged and request.tools stays as it was.    *)
(***************************************************************************)
RecommenderBehaviours == {"returns", "raises"}

\* A faulty variant of Recommend: the recommender is asked whether or not
\* the caller named tools, and its answer replaces the caller's list.
RecommendUnconditional ==
    /\ pc = "recommend"
    /\ \E behaviour \in RecommenderBehaviours :
          /\ rec_outcome' = behaviour
          /\ tools' = IF behaviour = "returns"
                      THEN ActionRecommenderTool_run(request.question)
                      ELSE tools
    /\ pc' = "intent"
    /\ UNCHANGED << globals, served, request, session_id, ti, detected_intent, tool_results,
                    vector_results, context_results, user_policy_source_added,
                    response_text, sources, mcp_response, http, entry_sessions,
                    vector_call, gen_call, calls, inflight, probe >>

Recommend ==
    /\ pc = "recommend"
    /\ IF tools = <<>>
       THEN \E behaviour \in RecommenderBehaviours :
               /\ rec_outcome' = behaviour
               /\ tools' = IF behaviour = "returns"
                           THEN ActionRecommenderTool_run(request.question)
                           ELSE tools
       ELSE /\ rec_outcome' = rec_outcome
            /\ tools' = tools
    /\ pc' = "intent"
    /\ UNCHANGED << globals, served, request, session_id, ti, detected_intent, tool_results,
                    vector_results, context_results, user_policy_source_added,
                    response_text, sources, mcp_response, http, entry_sessions,
                    vector_call, gen_call, calls, inflight, probe >>

(***************************************************************************)
(* process_request, lines 75-94: intent detection, with the sentinel        *)
(* substituted for an empty result.                                         *)
(***************************************************************************)
NormalizeIntent(result) == IF Len(result) > 0 THEN result ELSE << SentinelIntent >>

\* A faulty variant of DetectIntent: a failed call to the intent service is
\* made a second time.
DetectIntentRetrying ==
    /\ pc = "intent"
    /\ \E service \in IntentServiceBehaviours, second \in IntentServiceBehaviours :
          LET first == ServiceCall("intent_service", request.question, "pipeline",
                                   service.kind # "ok")
              again == ServiceCall("intent_service", request.question, "pipeline",
                                   second.kind # "ok")
          IN  IF service.kind = "ok"
              THEN /\ detected_intent' = NormalizeIntent(IntentDetectionTool_run(service))
                   /\ calls' = Append(calls, first)
              ELSE /\ detected_intent' = NormalizeIntent(IntentDetectionTool_run(second))
                   /\ calls' = calls \o << first, again >>
    /\ pc' = IF tools = <<>> THEN "search" ELSE "tools"
    /\ UNCHANGED << globals, served, request, session_id, tools, ti, tool_results,
                    vector_results, context_results, user_policy_source_added,
                    response_text, sources, mcp_response, http, entry_sessions,
                    vector_call, gen_call, rec_outcome,
                    inflight, probe >>

DetectIntent ==
    /\ pc = "intent"
    /\ \E service \in IntentServiceBehaviours :
          /\ detected_intent' = NormalizeIntent(IntentDetectionTool_run(service))
          /\ calls' = Append(calls, ServiceCall("intent_service", request.question,
                                                "pipeline", service.kind # "ok"))
    /\ pc' = IF tools = <<>> THEN "search" ELSE "tools"
    /\ UNCHANGED << globals, served, request, session_id, tools, ti, tool_results,
                    vector_results, context_results, user_policy_source_added,
                    response_text, sources, mcp_response, http, entry_sessions,
                    vector_call, gen_call, rec_outcome,
                    inflight, probe >>

(***************************************************************************)
(* process_request, lines 96-117: one iteration of the tool loop.           *)
(***************************************************************************)
ExecuteTool ==
    /\ pc = "tools"
    /\ ti <= Len(tools)
    /\ \E index \in IF tools[ti].tool_type = VECTOR_SEARCH
                    THEN VectorIndexBehaviours(ToolVectorResultLists)
                    ELSE {[kind |-> "ok", matches |-> <<>>]},
          service \in IF tools[ti].tool_type = INTENT_DETECTION
                      THEN IntentServiceBehaviours ELSE {NoProbe.service} :
          LET tt == tools[ti].tool_type
              response == ToolRun(tools[ti], VectorSearchTool_run(index), service)
              ran == tt \in RegisteredTools /\ response.error = None
          IN  /\ tool_results' = IF tt \in RegisteredTools
                                 THEN Append(tool_results, response)
                                 ELSE tool_results
              /\ calls' =
                    IF ran /\ tt = INTENT_DETECTION
                    THEN Append(calls, ServiceCall("intent_service", tools[ti].parameters.query,
                                                   "tool", service.kind # "ok"))
                    ELSE IF ran /\ tt = VECTOR_SEARCH
                    THEN Append(calls, ServiceCall("vector_index", tools[ti].parameters.query,
                                                   "tool", index.kind # "ok"))
                    ELSE calls
    /\ ti' = ti + 1
    /\ pc' = IF ti = Len(tools) THEN "search" ELSE "tools"
    /\ UNCHANGED << globals, served, request, session_id, tools, detected_intent,
                    vector_results, context_results, user_policy_source_added,
                    response_text, sources, mcp_response, http, entry_sessions,
                    vector_call, gen_call, rec_outcome,
                    inflight, probe >>

(***************************************************************************)
(* process_request, lines 119-124: the mandatory vector search.             *)
(***************************************************************************)
MandatoryTopK == 3

MandatoryVectorSearch ==
    /\ pc = "search"
    /\ \E index \in VectorIndexBehaviours(VectorResultLists) :
        LET results == VectorSearchTool_run(index)
        IN  /\ vector_results' = results
            /\ context_results' = IF results # <<>> THEN results ELSE context_results
            /\ calls' = Append(calls, ServiceCall("vector_index", request.question,
                                                  "pipeline", index.kind # "ok"))
    /\ vector_call' = Append(vector_call, [query |-> request.question, top_k |-> MandatoryTopK])
    /\ pc' = "fuse"
    /\ UNCHANGED << globals, served, request, session_id, tools, ti, detected_intent,
                    tool_results, user_policy_source_added, response_text, sources,
                    mcp_response, http, entry_sessions, gen_call, rec_outcome,
                    inflight, probe >>

(***************************************************************************)
(* process_request, lines 126-150.                                          *)
(***************************************************************************)
FusePolicy ==
    /\ pc = "fuse"
    /\ context_results' = FusePolicyContext(tool_results, context_results)
    /\ user_policy_source_added' = PolicySourceAdded(tool_results)
    /\ pc' = "generate"
    /\ UNCHANGED << globals, served, request, session_id, tools, ti, detected_intent,
                    tool_results, vector_results, response_text, sources, mcp_response,
                    http, entry_sessions, vector_call, gen_call, rec_outcome,
                    calls, inflight, probe >>

(***************************************************************************)
(* process_request, lines 152-203: the call of                              *)
(* ChatbotService.generate_response, which returns the model's text or, on  *)
(* any failure, an apology; then the sources are extracted.                 *)
(***************************************************************************)
ChatHistoryArg(req) == req.chat_history

\* A faulty variant of generate_response: a failure yields an empty answer.
generate_response_blank(outcome) == IF outcome = "ok" THEN GeneratedAnswer ELSE ""

generate_response(outcome) == IF outcome = "ok" THEN GeneratedAnswer ELSE ApologyAnswer

Generate ==
    /\ pc = "generate"
    /\ \E outcome \in GenerationOutcomes :
        /\ gen_call' = Append(gen_call,
                              [query |-> request.question,
                               context |-> context_results,
                               chat_history |-> ChatHistoryArg(request),
                               system_prompt |-> SystemPrompt(detected_intent),
                               outcome |-> outcome])
        /\ response_text' = generate_response(outcome)
        /\ calls' = Append(calls, ServiceCall("generation_engine", request.question,
                                              "pipeline", outcome # "ok"))
    /\ sources' = ExtractSources(context_results, user_policy_source_added)
    /\ pc' = "history"
    /\ UNCHANGED << globals, served, request, session_id, tools, ti, detected_intent,
                    tool_results, vector_results, context_results,
                    user_policy_source_added, mcp_response, http,
                    entry_sessions, vector_call, rec_outcome,
                    inflight, probe >>

(***************************************************************************)
(* process_request, lines 205-221: the two turns are appended to the        *)
(* session's history, and only then is the MCPResponse constructed and      *)
(* validated.                                                               *)
(***************************************************************************)
Turns(query, answer) ==
    << [role |-> "user", content |-> query], [role |-> "assistant", content |-> answer] >>

\* A faulty variant of AppendTurns: the two turns overwrite the history.
AppendTurnsOverwriting(store, sid, query, answer) ==
    [store EXCEPT ![sid].history = Turns(query, answer)]

\* A faulty variant of AppendTurns: the answer is stored before the question.
AppendTurnsReversed(store, sid, query, answer) ==
    [store EXCEPT ![sid].history =
        @ \o << Turns(query, answer)[2], Turns(query, answer)[1] >>]

\* A faulty variant of AppendTurns: the sessions share one history list.
AppendTurnsShared(store, sid, query, answer) ==
    [s \in DOMAIN store |-> [store[s] EXCEPT !.history = @ \o Turns(query, answer)]]

AppendTurns(store, sid, query, answer) ==
    [store EXCEPT ![sid].history = @ \o Turns(query, answer)]

\* MCPResponse(...) at the return statement: the model is built, or pydantic
\* raises its ValidationError.
Finish ==
    /\ pc = "history"
    /\ sessions' = AppendTurns(sessions, session_id, request.question, response_text)
    /\ IF MCPResponseAccepts(detected_intent, pydantic_v1)
       THEN /\ mcp_response' = MCPResponse(response_text, sources, tool_results, detected_intent)
            /\ pc' = "returned"
       ELSE /\ mcp_response' = mcp_response
            /\ pc' = "raised"
    /\ UNCHANGED << minted, served, pydantic_v1, request, session_id, tools, ti,
                    detected_intent, tool_results, vector_results, context_results,
                    user_policy_source_added, response_text, sources, http,
                    entry_sessions, vector_call, gen_call, rec_outcome,
                    calls, inflight, probe >>

(***************************************************************************)
(* mcp_query, lines 68-88: the handler builds its answer; the session id it *)
(* reports is the one the caller sent or, when that is falsy, a session     *)
(* created on the spot.  The answer is not yet sent (status 0).             *)
(***************************************************************************)
HandlerReturn ==
    /\ pc = "returned"
    /\ LET fresh == Falsy(request.session_id)
           payload ==
               [answer |-> mcp_response.response,
                sources |-> mcp_response.sources,
                session_id |-> IF fresh THEN Uuid(minted + 1) ELSE request.session_id,
                detected_intent |-> mcp_response.detected_intent,
                tool_results |-> mcp_response.tool_results]
       IN  /\ sessions' = IF fresh THEN create_session(sessions, minted) ELSE sessions
           /\ minted' = IF fresh THEN minted + 1 ELSE minted
           /\ http' = [status |-> 0, body |-> payload]
    /\ pc' = "validate"
    /\ UNCHANGED << served, pydantic_v1, request, session_id, tools, ti, detected_intent,
                    tool_results, vector_results, context_results,
                    user_policy_source_added, response_text, sources, mcp_response,
                    entry_sessions, vector_call, gen_call, rec_outcome,
                    calls, inflight, probe >>

(***************************************************************************)
(* The route's response_model: FastAPI validates what the handler returned  *)
(* against MCPQueryResponse and answers 500 when it does not fit.           *)
(***************************************************************************)
ValidateResponse ==
    /\ pc = "validate"
    /\ http' = IF MCPQueryResponseAccepts(http.body)
               THEN [status |-> 200, body |-> http.body]
               ELSE [status |-> 500, body |-> [detail |-> "Internal Server Error"]]
    /\ pc' = "responded"
    /\ UNCHANGED << globals, served, request, session_id, tools, ti, detected_intent,
                    tool_results, vector_results, context_results,
                    user_policy_source_added, response_text, sources, mcp_response,
                    entry_sessions, vector_call, gen_call, rec_outcome,
                    calls, inflight, probe >>

(***************************************************************************)
(* mcp_query, lines 90-92: the catch-all.                                   *)
(***************************************************************************)
HandlerCatch ==
    /\ pc = "raised"
    /\ http' = [status |-> 500, body |-> [detail |-> "Error processing query: validation error"]]
    /\ pc' = "responded"
    /\ UNCHANGED << globals, served, request, session_id, tools, ti, detected_intent,
                    tool_results, vector_results, context_results,
                    user_policy_source_added, response_text, sources, mcp_response,
                    entry_sessions, vector_call, gen_call, rec_outcome,
                    calls, inflight, probe >>

(***************************************************************************)
(* The handler has answered: its frame is gone, the controller's sessions   *)
(* stay.                                                                    *)
(***************************************************************************)
Release ==
    /\ pc = "responded"
    /\ pc' = "idle"
    /\ request' = NoRequest
    /\ entry_sessions' = sessions
    /\ tools' = <<>>
    /\ http' = NoResponse
    /\ inflight' = [id \in DOMAIN inflight |->
                        IF inflight[id].state = "running"
                        THEN [inflight[id] EXCEPT
                                 !.state = "done",
                                 !.used = session_id,
                                 !.answer = response_text,
                                 !.turn = 1 + Cardinality({j \in DOMAIN inflight :
                                                             inflight[j].state = "done"})]
                        ELSE inflight[id]]
    /\ LocalsReset
    /\ UNCHANGED << globals, served, probe >>

Next ==
    \/ Receive
    \/ ResolveSession
    \/ Recommend
    \/ DetectIntent
    \/ ExecuteTool
    \/ MandatoryVectorSearch
    \/ FusePolicy
    \/ Generate
    \/ Finish
    \/ HandlerReturn
    \/ ValidateResponse
    \/ HandlerCatch
    \/ Release

Spec == Init /\ [][Next]_vars

(***************************************************************************)
(* backend/api.py: the plain POST /query handler.  The whole body sits in   *)
(* one try block whose `except Exception` answers with a fixed apology and  *)
(* the Error/System source; the HTTPException(400) raised for an empty      *)
(* question is raised inside that block.                                    *)
(***************************************************************************)
QueryApology ==
    "I apologize, but I encountered an error while processing your question. Please try again later."

QueryErrorSources == << [name |-> "Error", type |-> "System"] >>

QueryDefaultSources == << [name |-> "No specific source", type |-> "General Information"] >>

QuerySourceOf(result) ==
    [name |-> Get(result, "source", "Deafault"), type |-> Get(result, "doc_type", "Deafault")]

RECURSIVE QueryDedup(_, _, _)
QueryDedup(context, i, acc) ==
    IF i > Len(context) THEN acc
    ELSE QueryDedup(context, i + 1,
                    IF InSeq(QuerySourceOf(context[i]), acc) THEN acc
                    ELSE Append(acc, QuerySourceOf(context[i])))

QuerySources(context) ==
    LET found == QueryDedup(context, 1, <<>>)
    IN  IF found = <<>> THEN QueryDefaultSources ELSE found

\* What the generation step of /query may meet: an answer, the apology of
\* generate_response, a None answer, or a ChatbotService constructor that
\* raises.
QueryGenerationOutcomes == {"ok", "error", "none", "init_raises"}

QueryAnswer(outcome) ==
    CASE outcome = "ok" -> GeneratedAnswer
      [] outcome = "error" -> ApologyAnswer
      [] outcome = "none" -> "I apologize, but I couldn't generate a response at this time."
      [] OTHER ->
            "I apologize, but I encountered an error while processing your question: "
                \o "model unavailable"

QueryReceive ==
    /\ pc = "idle"
    /\ served < MaxRequests
    /\ \E question \in Questions, chat_history \in ChatHistories :
        /\ request' = [question |-> question, chat_history |-> chat_history,
                       session_id |-> None, tools |-> <<>>]
        /\ pc' = IF IsBlank(question) THEN "q_caught" ELSE "q_search"
    /\ served' = served + 1
    /\ tools' = <<>>
    /\ http' = NoResponse
    /\ entry_sessions' = sessions
    /\ LocalsReset
    /\ UNCHANGED << globals, inflight, probe >>

QuerySearch ==
    /\ pc = "q_search"
    /\ \E results \in VectorResultLists : context_results' = results
    /\ vector_call' = Append(vector_call, [query |-> request.question, top_k |-> 3])
    /\ pc' = "q_generate"
    /\ UNCHANGED << globals, served, request, session_id, tools, ti, detected_intent,
                    tool_results, vector_results, user_policy_source_added, response_text,
                    sources, mcp_response, http, entry_sessions, gen_call, rec_outcome,
                    calls, inflight, probe >>

QueryGenerate ==
    /\ pc = "q_generate"
    /\ \E outcome \in QueryGenerationOutcomes :
        /\ response_text' = QueryAnswer(outcome)
        /\ gen_call' = IF outcome = "init_raises" THEN gen_call
                       ELSE Append(gen_call,
                                   [query |-> request.question,
                                    context |-> context_results,
                                    chat_history |-> request.chat_history,
                                    outcome |-> outcome])
    /\ sources' = QuerySources(context_results)
    /\ pc' = "q_return"
    /\ UNCHANGED << globals, served, request, session_id, tools, ti, detected_intent,
                    tool_results, vector_results, context_results,
                    user_policy_source_added, mcp_response, http, entry_sessions,
                    vector_call, rec_outcome,
                    calls, inflight, probe >>

QueryReturn ==
    /\ pc = "q_return"
    /\ http' = [status |-> 200, body |-> [answer |-> response_text, sources |-> sources]]
    /\ pc' = "responded"
    /\ UNCHANGED << globals, served, request, session_id, tools, ti, detected_intent,
                    tool_results, vector_results, context_results,
                    user_policy_source_added, response_text, sources, mcp_response,
                    entry_sessions, vector_call, gen_call, rec_outcome,
                    calls, inflight, probe >>

QueryCatch ==
    /\ pc = "q_caught"
    /\ http' = [status |-> 200,
                body |-> [answer |-> QueryApology, sources |-> QueryErrorSources]]
    /\ pc' = "responded"
    /\ UNCHANGED << globals, served, request, session_id, tools, ti, detected_intent,
                    tool_results, vector_results, context_results,
                    user_policy_source_added, response_text, sources, mcp_response,
                    entry_sessions, vector_call, gen_call, rec_outcome,
                    calls, inflight, probe >>

NextQuery ==
    \/ QueryReceive
    \/ QuerySearch
    \/ QueryGenerate
    \/ QueryReturn
    \/ QueryCatch
    \/ Release

SpecQuery == Init /\ [][NextQuery]_vars

(***************************************************************************)
(* IntentDetectionTool.run applied on its own, to every behaviour of the    *)
(* classification service with at most MaxIntents entries in its answer.    *)
(***************************************************************************)
IntentEntries == {IntentA, IntentB, IntentC, IntentD, IntentE}

IntentBodies == UNION {[1..n -> IntentEntries] : n \in 0..MaxIntents}

AllServiceBehaviours ==
    [kind : {"ok"}, body : IntentBodies]
    \cup [kind : {"non200", "timeout", "transport_error", "malformed"}, body : {<<>>}]

InitIntent ==
    /\ sessions = <<>>
    /\ minted = 0
    /\ served = 0
    /\ pydantic_v1 = FALSE
    /\ pc = "probe"
    /\ request = NoRequest
    /\ entry_sessions = sessions
    /\ inflight = <<>>
    /\ probe \in [service : AllServiceBehaviours, result : {<<>>}]
    /\ LocalsInit

ProbeIntent ==
    /\ pc = "probe"
    /\ probe.result = <<>>
    /\ probe' = [probe EXCEPT !.result = IntentDetectionTool_run(probe.service)]
    /\ UNCHANGED << sessions, minted, served, pydantic_v1, pc, request, session_id, tools,
                    ti, detected_intent, tool_results, vector_results, context_results,
                    user_policy_source_added, response_text, sources, mcp_response, http,
                    entry_sessions, vector_call, gen_call, rec_outcome, calls, inflight >>

NextIntent == ProbeIntent

SpecIntent == InitIntent /\ [][NextIntent]_vars

(***************************************************************************)
(* ActionRecommenderTool.run applied on its own, to every query of at most  *)
(* MaxWords words of RecommenderWords, and to a query that is no str.       *)
(***************************************************************************)
RecommenderWords ==
    {"my", "Policy", "policy", "number", "id", "trv-1", "#7", "coverage", "proposer",
     "health", "car", "explain"}

RecommenderQueries ==
    {Join(w, " ") : w \in UNION {[1..n -> RecommenderWords] : n \in 0..MaxWords}}

InitRecommender ==
    /\ sessions = <<>>
    /\ minted = 0
    /\ served = 0
    /\ pydantic_v1 = FALSE
    /\ pc = "probe"
    /\ request = NoRequest
    /\ entry_sessions = sessions
    /\ inflight = <<>>
    /\ probe \in [query : RecommenderQueries \cup {None}, result : {<<>>}]
    /\ LocalsInit

ProbeRecommender ==
    /\ pc = "probe"
    /\ probe.result = <<>>
    /\ probe' = [probe EXCEPT !.result = ActionRecommenderTool_run(probe.query)]
    /\ UNCHANGED << sessions, minted, served, pydantic_v1, pc, request, session_id, tools,
                    ti, detected_intent, tool_results, vector_results, context_results,
                    user_policy_source_added, response_text, sources, mcp_response, http,
                    entry_sessions, vector_call, gen_call, rec_outcome, calls, inflight >>

NextRecommender == ProbeRecommender

SpecRecommender == InitRecommender /\ [][NextRecommender]_vars

(***************************************************************************)
(* UserPolicyTool.run applied on its own, to every combination of the       *)
(* identifiers and query types below.                                       *)
(***************************************************************************)
PolicyIds == {None, "trv-1", "hlt-2", "alt-2", "gen-3", "zz-9"}

UserNames == {None, "rao", "ASHA@", "nair", "nobody"}

ProductNames == {None, "travel", "Health", "elevate", "motor"}

QueryTypes == {"full", "coverage", "proposer", "policy", "insured", "summary"}

InitPolicy ==
    /\ sessions = <<>>
    /\ minted = 0
    /\ served = 0
    /\ pydantic_v1 = FALSE
    /\ pc = "probe"
    /\ request = NoRequest
    /\ entry_sessions = sessions
    /\ inflight = <<>>
    /\ probe \in [policy_id : PolicyIds, user_name : UserNames,
                  product_name : ProductNames, query_type : QueryTypes, result : {<<>>}]
    /\ LocalsInit

ProbePolicy ==
    /\ pc = "probe"
    /\ probe.result = <<>>
    /\ probe' = [probe EXCEPT !.result =
                    UserPolicyTool_run(probe.policy_id, probe.user_name,
                                       probe.product_name, probe.query_type)]
    /\ UNCHANGED << sessions, minted, served, pydantic_v1, pc, request, session_id, tools,
                    ti, detected_intent, tool_results, vector_results, context_results,
                    user_policy_source_added, response_text, sources, mcp_response, http,
                    entry_sessions, vector_call, gen_call, rec_outcome, calls, inflight >>

NextPolicy == ProbePolicy

SpecPolicy == InitPolicy /\ [][NextPolicy]_vars

(***************************************************************************)
(* UserPolicyTool.get_coverage_details applied on its own.                  *)
(***************************************************************************)
CoverageNames ==
    {None, "", "baggage", "BAGGAGE LOSS", "loss", "Bag", "trip", "delay", "dental", "s"}

InitCoverage ==
    /\ sessions = <<>>
    /\ minted = 0
    /\ served = 0
    /\ pydantic_v1 = FALSE
    /\ pc = "probe"
    /\ request = NoRequest
    /\ entry_sessions = sessions
    /\ inflight = <<>>
    /\ probe \in [policy_id : PolicyIds, coverage_name : CoverageNames, result : {<<>>}]
    /\ LocalsInit

ProbeCoverage ==
    /\ pc = "probe"
    /\ probe.result = <<>>
    /\ probe' = [probe EXCEPT !.result =
                    get_coverage_details(probe.policy_id, probe.coverage_name)]
    /\ UNCHANGED << sessions, minted, served, pydantic_v1, pc, request, session_id, tools,
                    ti, detected_intent, tool_results, vector_results, context_results,
                    user_policy_source_added, response_text, sources, mcp_response, http,
                    entry_sessions, vector_call, gen_call, rec_outcome, calls, inflight >>

NextCoverage == ProbeCoverage

SpecCoverage == InitCoverage /\ [][NextCoverage]_vars

(***************************************************************************)
(* Requests that arrive together.  mcp_query is an `async def` handler with *)
(* no await in it and process_request is a plain function, so the event     *)
(* loop of the one server process runs a handler from its first statement   *)
(* to its return before it starts the next: requests accepted together are  *)
(* handled one whole handler at a time, in any order.  The controller holds *)
(* two sessions from earlier requests.                                      *)
(***************************************************************************)
StoredHistory == Turns("explain deductibles", GeneratedAnswer)

KnownSessions ==
    [s \in {Uuid(1), Uuid(2)} |-> [MCPSession(s) EXCEPT !.history = StoredHistory]]

\* The requests ask these questions in turn.
ConcurrentQuestions == << "explain deductibles", "my policy number trv-1" >>

QuestionOf(id) == ConcurrentQuestions[((id - 1) % Len(ConcurrentQuestions)) + 1]

ConcurrentSessionIds == {None, Uuid(1), Uuid(2)}

InflightRequest(question, sid) ==
    [question |-> question, session_id |-> sid, state |-> "queued",
     used |-> None, answer |-> None, turn |-> 0]

InitConcurrent ==
    /\ sessions = KnownSessions
    /\ minted = 2
    /\ served = 0
    /\ pydantic_v1 \in BOOLEAN
    /\ pc = "idle"
    /\ request = NoRequest
    /\ entry_sessions = sessions
    /\ inflight \in {[id \in 1..MaxInflight |-> InflightRequest(QuestionOf(id), sids[id])] :
                        sids \in [1..MaxInflight -> ConcurrentSessionIds]}
    /\ probe = NoProbe
    /\ LocalsInit

\* The event loop starts the handler of one of the accepted requests.
Dispatch ==
    /\ pc = "idle"
    /\ \E id \in DOMAIN inflight :
        /\ inflight[id].state = "queued"
        /\ request' = [question |-> inflight[id].question, chat_history |-> <<>>,
                       session_id |-> inflight[id].session_id, tools |-> <<>>]
        /\ IF IsBlank(inflight[id].question)
           THEN /\ pc' = "responded"
                /\ http' = [status |-> 500,
                            body |-> [detail |-> "Error processing query: 400: Question cannot be empty"]]
           ELSE /\ pc' = "resolve"
                /\ http' = NoResponse
        /\ inflight' = [inflight EXCEPT ![id].state = "running"]
    /\ tools' = <<>>
    /\ entry_sessions' = sessions
    /\ LocalsReset
    /\ UNCHANGED << globals, served, probe >>

NextConcurrent ==
    \/ Dispatch
    \/ ResolveSession
    \/ Recommend
    \/ DetectIntent
    \/ ExecuteTool
    \/ MandatoryVectorSearch
    \/ FusePolicy
    \/ Generate
    \/ Finish
    \/ HandlerReturn
    \/ ValidateResponse
    \/ HandlerCatch
    \/ Release

SpecConcurrent == InitConcurrent /\ [][NextConcurrent]_vars

(***************************************************************************)
(* _format_policy_data applied on its own, to records holding any subset of *)
(* the four fields.                                                         *)
(***************************************************************************)
PolicyFields == {"policy_details", "proposer_details", "insured_details", "coverages"}

PolicyDetailChoices == { <<>>, [policy_number |-> "trv-1", product_name |-> "Travel Insurance"] }

CoverageChoices ==
    { <<>>,
      << [cover_name |-> "Baggage Loss", benefits |-> "Lost bags",
          sum_insured |-> "500", deductibles |-> "50"] >>,
      << [benefits |-> "Trip delay"] >>,
      << <<>> >>,
      << [cover_name |-> "Trip Delay", sum_insured |-> "200"],
         [cover_name |-> "Baggage Loss", deductibles |-> "50"] >> }

PolicyRecord(fields, policy_details, coverages) ==
    [f \in fields |->
        CASE f = "policy_details" -> policy_details
          [] f = "proposer_details" -> [name |-> "Asha Rao", email_id |-> "asha@mail.in"]
          [] f = "insured_details" -> [name |-> "Ravi Rao"]
          [] OTHER -> coverages]

PolicyRecords ==
    {PolicyRecord(fields, pd, cov) :
        fields \in SUBSET PolicyFields, pd \in PolicyDetailChoices, cov \in CoverageChoices}

InitFormat ==
    /\ sessions = <<>>
    /\ minted = 0
    /\ served = 0
    /\ pydantic_v1 = FALSE
    /\ pc = "probe"
    /\ request = NoRequest
    /\ entry_sessions = sessions
    /\ inflight = <<>>
    /\ probe \in [policy_data : PolicyRecords, done : {FALSE}, result : {""}]
    /\ LocalsInit

ProbeFormat ==
    /\ pc = "probe"
    /\ ~probe.done
    /\ probe' = [probe EXCEPT !.done = TRUE,
                              !.result = _format_policy_data(probe.policy_data)]
    /\ UNCHANGED << sessions, minted, served, pydantic_v1, pc, request, session_id, tools,
                    ti, detected_intent, tool_results, vector_results, context_results,
                    user_policy_source_added, response_text, sources, mcp_response, http,
                    entry_sessions, vector_call, gen_call, rec_outcome, calls, inflight >>

NextFormat == ProbeFormat

SpecFormat == InitFormat /\ [][NextFormat]_vars

(***************************************************************************)
(* Properties of the session history.                                       *)
(***************************************************************************)

\* C1: when process_request completes successfully (its return statement
\* yields the MCPResponse), the history of the session it used is the history
\* that session had when the request arrived, unchanged, followed by exactly
\* two turns: the user's query and then the assistant's answer.
C1_HistoryGrowsByTwoTurns ==
    pc = "returned" =>
        LET before == IF session_id \in DOMAIN entry_sessions
                      THEN entry_sessions[session_id].history ELSE <<>>
            after == sessions[session_id].history
        IN  /\ Len(after) = Len(before) + 2
            /\ SubSeq(after, 1, Len(before)) = before
            /\ after[Len(before) + 1] = [role |-> "user", content |-> request.question]
            /\ after[Len(before) + 2] = [role |-> "assistant", content |-> response_text]

\* A request completes successfully on a session that already holds turns.
C1_Witness ==
    /\ pc = "returned"
    /\ session_id \in DOMAIN entry_sessions
    /\ Len(entry_sessions[session_id].history) >= 2

\* C2: a request that fails (process_request raises, and the caller gets an
\* error) leaves the history of every session as it was when the request
\* arrived; a session created by the request has an empty history.
C2_FailedRequestKeepsHistory ==
    pc = "raised" =>
        \A s \in DOMAIN sessions :
            sessions[s].history = IF s \in DOMAIN entry_sessions
                                  THEN entry_sessions[s].history ELSE <<>>

\* C3: a request that carries a known session id hands generate_response the
\* turns stored in that session, whatever chat_history the caller sent.
C3_GenerationGetsStoredTurns ==
    (gen_call # <<>> /\ request.session_id \in DOMAIN entry_sessions) =>
        gen_call[1].chat_history = entry_sessions[request.session_id].history

(***************************************************************************)
(* Session resolution, observed right after it (pc = "recommend").          *)
(***************************************************************************)

\* C4: with session_id absent or not a key of the session store,
\* process_request creates one session under a fresh identifier with an
\* empty history, keeps every existing session, and uses the new one; with
\* a known session_id it uses that session and creates none.
C4_SessionResolution ==
    pc = "recommend" =>
        IF Falsy(request.session_id) \/ request.session_id \notin DOMAIN entry_sessions
        THEN /\ session_id \notin DOMAIN entry_sessions
             /\ session_id # request.session_id
             /\ DOMAIN sessions = DOMAIN entry_sessions \cup {session_id}
             /\ sessions[session_id].history = <<>>
             /\ sessions[session_id].session_id = session_id
             /\ \A s \in DOMAIN entry_sessions : sessions[s] = entry_sessions[s]
        ELSE /\ session_id = request.session_id
             /\ sessions = entry_sessions

\* A request with a known session id, holding turns, has been resolved.
C4_Witness ==
    /\ pc = "recommend"
    /\ request.session_id \in DOMAIN entry_sessions
    /\ entry_sessions[request.session_id].history # <<>>
    /\ Cardinality(DOMAIN sessions) >= 2

(***************************************************************************)
(* The mandatory vector search.                                             *)
(***************************************************************************)

\* C5: whatever tools were selected, by the time generate_response is called
\* the vector search has been invoked exactly once by process_request itself,
\* with the caller's raw question and top_k = 3, and every item it returned
\* is in the context handed to generation, in the order returned (they are
\* its last items).
C5_MandatoryVectorSearch ==
    gen_call # <<>> =>
        /\ vector_call = << [query |-> request.question, top_k |-> 3] >>
        /\ LET ctx == gen_call[1].context
               n == Len(vector_results)
           IN  /\ Len(ctx) >= n
               /\ SubSeq(ctx, Len(ctx) - n + 1, Len(ctx)) = vector_results

\* Generation was called after a request whose explicit tool list held a
\* failing call, an unregistered tool and a vector search of its own, and
\* the mandatory search returned three items.
C5_Witness ==
    /\ gen_call # <<>>
    /\ Len(vector_results) = 3
    /\ Len(request.tools) = 4
    /\ Len(tool_results) = 3

(***************************************************************************)
(* Policy-context fusion and the source list.                               *)
(***************************************************************************)

\* C6: if the tool results hold a UserPolicy result with no error and a
\* non-empty payload, then, whatever the vector search returned, the first
\* item of the context handed to generation is the rendered policy text and
\* the first entry of the source list is
\* {name: "User Policy", type: "Personal Policy Details"}.
C6_PolicyFirstInContextAndSources ==
    (gen_call # <<>> /\ \E i \in 1..Len(tool_results) : IsPolicyResult(tool_results[i])) =>
        /\ gen_call[1].context # <<>>
        /\ \E i \in 1..Len(tool_results) :
              /\ IsPolicyResult(tool_results[i])
              /\ gen_call[1].context[1].text = _format_policy_data(tool_results[i].result.result)
        /\ sources # <<>>
        /\ sources[1] = [name |-> "User Policy", type |-> "Personal Policy Details"]

\* C7: the context handed to generation holds at most one item derived from a
\* policy record, and it is the first item; also when the explicit tool list
\* holds several UserPolicy calls that each match a stored policy.
C7_AtMostOnePolicyContext ==
    gen_call # <<>> =>
        LET ctx == gen_call[1].context
            derived == {i \in 1..Len(ctx) : ctx[i].doc_type = "User Policy Details"}
        IN  Cardinality(derived) <= 1 /\ derived \subseteq {1}

\* C8: the source list holds no two entries with the same (name, type) pair,
\* it cites every context item, and the entries taken from the context list
\* stand in the order in which their pairs first occur in it.
C8_SourcesDeduplicatedInOrder ==
    gen_call # <<>> =>
        LET ctx == gen_call[1].context
            derived == {SourceOf(ctx[i]) : i \in 1..Len(ctx)}
            first(src) == CHOOSE i \in 1..Len(ctx) :
                              /\ SourceOf(ctx[i]) = src
                              /\ \A j \in 1..(i - 1) : SourceOf(ctx[j]) # src
        IN  /\ \A i, j \in 1..Len(sources) : i # j => sources[i] # sources[j]
            /\ \A i \in 1..Len(ctx) : \E k \in 1..Len(sources) : sources[k] = SourceOf(ctx[i])
            /\ \A i, j \in 1..Len(sources) :
                  (i < j /\ sources[i] \in derived /\ sources[j] \in derived)
                      => first(sources[i]) < first(sources[j])

\* Generation was called with a context in which a (source, doc_type) pair
\* occurs twice, and the source list has several entries.
C8_Witness ==
    /\ gen_call # <<>>
    /\ Len(sources) >= 2
    /\ Len(gen_call[1].context) > Len(sources)

(***************************************************************************)
(* Intent detection.                                                        *)
(***************************************************************************)

\* C9: IntentDetectionTool.run never returns an empty list; it returns at
\* most three entries, sorted by score in descending order; and when the
\* service answers with a non-success status, fails (timeout, transport
\* error, malformed body) or succeeds with zero entries, it returns exactly
\* the one-element list holding {intent: None, route: None, score: 0}.
C9_IntentRunResult ==
    probe.result # <<>> =>
        LET r == probe.result
        IN  /\ Len(r) >= 1
            /\ Len(r) <= 3
            /\ \A i \in 1..(Len(r) - 1) : r[i].score >= r[i + 1].score
            /\ (probe.service.kind # "ok" \/ probe.service.body = <<>>)
                   => r = << [intent |-> None, route |-> None, score |-> 0] >>

\* run has answered a successful classification of four entries, listed
\* out of order, with three of them.
C9_Witness ==
    /\ probe.service.kind = "ok"
    /\ Len(probe.service.body) = 4
    /\ ScoreKey(probe.service.body[1]) < ScoreKey(probe.service.body[2])
    /\ Len(probe.result) = 3
    /\ probe.result[1].score > probe.result[3].score

\* C10: when intent detection fails, the request is not aborted:
\* process_request returns a response whose detected_intent is the sentinel
\* list and whose answer is the generated text.
C10_IntentFailureStillAnswers ==
    (detected_intent = << SentinelIntent >> /\ pc \in {"returned", "raised"}) =>
        /\ pc = "returned"
        /\ mcp_response.response = response_text
        /\ mcp_response.detected_intent = [type |-> "list", value |-> detected_intent]

(***************************************************************************)
(* The tool loop.                                                           *)
(***************************************************************************)

\* C11: a ToolCall whose type has no entry in the controller's registry
\* (PolicyLookup, FaqLookup, CoverageComparison) is a no-op: the step that
\* handles it appends nothing to tool_results, raises nothing, changes
\* nothing else, and the loop goes on to the next call or, after the last
\* one, to the mandatory vector search.
C11_UnregisteredToolIsNoOp ==
    [][ (pc = "tools" /\ tools[ti].tool_type \in {POLICY_LOOKUP, FAQ_LOOKUP, COVERAGE_COMPARISON})
            => /\ tool_results' = tool_results
               /\ ti' = ti + 1
               /\ pc' = IF ti < Len(tools) THEN "tools" ELSE "search"
               /\ UNCHANGED << sessions, minted, request, session_id, tools, detected_intent,
                               vector_results, context_results, response_text, sources,
                               mcp_response, http, vector_call, gen_call, calls >> ]_vars

\* Generation was called for a tool list with two unregistered calls, each
\* followed by a registered one that was answered.
C11_Witness ==
    /\ gen_call # <<>>
    /\ Len(tools) = 4
    /\ tools[1].tool_type = FAQ_LOOKUP
    /\ tools[3].tool_type = COVERAGE_COMPARISON
    /\ Len(tool_results) = 2
    /\ tool_results[2].tool_type = ACTION_RECOMMENDER
    /\ vector_call # <<>>

\* C12: tool_results holds exactly one ToolResponse per executed ToolCall of
\* a registered type, in list order; a call whose parameters do not fit the
\* tool's signature (the tool raises) is answered with error set and result
\* None; and no failure stops the pipeline: whenever process_request ends,
\* every call of the list has been handled and the mandatory vector search
\* and generation have run.
C12_OneResponsePerRegisteredCall ==
    LET executed == SubSeq(tools, 1, ti - 1)
        registered ==
            SelectSeq(executed,
                      LAMBDA c : c.tool_type \in {INTENT_DETECTION, VECTOR_SEARCH,
                                                  ACTION_RECOMMENDER, USER_POLICY})
        misfit(c) ==
            \/ /\ c.tool_type = USER_POLICY
               /\ ~(DOMAIN c.parameters
                        \subseteq {"policy_id", "user_name", "product_name", "query_type"})
            \/ /\ c.tool_type = VECTOR_SEARCH
               /\ "query" \notin DOMAIN c.parameters
    IN  /\ Len(tool_results) = Len(registered)
        /\ \A k \in 1..Len(registered) :
              /\ tool_results[k].tool_type = registered[k].tool_type
              /\ misfit(registered[k])
                    => (tool_results[k].error # None /\ tool_results[k].result = None)
        /\ pc \in {"returned", "raised"}
              => (ti = Len(tools) + 1 /\ Len(vector_call) = 1 /\ Len(gen_call) = 1)

\* process_request ended after a tool list in which a call failed on its
\* parameters and a later call was answered without error.
C12_Witness ==
    /\ pc \in {"returned", "raised"}
    /\ \E k \in 1..Len(tool_results) :
          /\ tool_results[k].error # None
          /\ \E j \in (k + 1)..Len(tool_results) : tool_results[j].error = None

(***************************************************************************)
(* Empty questions and the handler's error paths.                           *)
(***************************************************************************)

\* C13: a /mcp/query request whose question is empty or only whitespace never
\* enters the pipeline: the handler answers at once, no session is created,
\* no existing session is modified, and neither the recommender, the intent
\* service, a tool, the vector index nor the generation engine is invoked.
C13_BlankQuestionTouchesNothing ==
    (pc # "idle" /\ request.question \in {"", "  "}) =>
        /\ pc = "responded"
        /\ sessions = entry_sessions
        /\ session_id = None
        /\ tools = request.tools
        /\ detected_intent = <<>>
        /\ tool_results = <<>>
        /\ vector_call = <<>>
        /\ gen_call = <<>>

\* A whitespace-only question, sent with a known session id and a tool list,
\* has been answered while the store holds a session with turns.
C13_Witness ==
    /\ pc = "responded"
    /\ request.question = "  "
    /\ request.session_id \in DOMAIN sessions
    /\ sessions[request.session_id].history # <<>>
    /\ request.tools # <<>>

\* C14: an empty (or whitespace-only) question is answered with HTTP 400, a
\* client error, on POST /mcp/query and on POST /query alike; never with a
\* 500 and never with a 200 that carries an apology.
C14_EmptyQuestionIsClientError ==
    (pc = "responded" /\ request.question \in {"", "  "}) => http.status = 400

\* C15: every non-empty query is answered with a valid answer structure (an
\* answer and a source list, HTTP 200), on /query and on /mcp/query: an
\* unexpected exception is turned into an apology with the Error/System
\* source and never surfaces as an error of the transport layer.
C15_NonEmptyQueryAlwaysAnswered ==
    (pc = "responded" /\ request.question \notin {"", "  "}) =>
        /\ http.status = 200
        /\ {"answer", "sources"} \subseteq DOMAIN http.body

\* C16: when the generation engine fails inside generate_response, the
\* controller receives no exception but the apology string with the failure
\* description; the sources are still the ones derived from the context
\* list (no Error/System entry); and the session history ends with the user
\* turn followed by the apology as the assistant turn.
C16_GenerationFailureDegrades ==
    (gen_call # <<>> /\ gen_call[1].outcome = "error") =>
        /\ pc \in {"history", "returned", "raised", "validate", "responded"}
        /\ response_text = "Sorry, I encountered an error: " \o "service unavailable"
        /\ \A k \in 1..Len(sources) :
              /\ sources[k] # [name |-> "Error", type |-> "System"]
              /\ \/ \E i \in 1..Len(context_results) : sources[k] = SourceOf(context_results[i])
                 \/ sources[k] = UserSource
        /\ \A i \in 1..Len(context_results) :
              \E k \in 1..Len(sources) : sources[k] = SourceOf(context_results[i])
        /\ pc \in {"returned", "raised", "validate", "responded"} =>
              LET h == sessions[session_id].history
              IN  /\ Len(h) >= 2
                  /\ h[Len(h) - 1] = [role |-> "user", content |-> request.question]
                  /\ h[Len(h)] = [role |-> "assistant", content |-> response_text]
              /\ (pc = "returned" =>
                     /\ mcp_response.response = response_text
                     /\ mcp_response.sources = sources)

\* process_request has returned a response after a failed generation, with
\* sources taken from a non-empty context.
C16_Witness ==
    /\ pc = "returned"
    /\ gen_call[1].outcome = "error"
    /\ context_results # <<>>
    /\ Len(sources) >= 2

(***************************************************************************)
(* The action recommender.                                                  *)
(***************************************************************************)

\* C17: for every query on which ActionRecommenderTool.run does not take its
\* error fallback, the output is a list of one or two tool calls; its last
\* element is a VectorSearch call with parameters {query: the raw query,
\* top_k: 3}; a UserPolicy call, when emitted, is the first element and
\* carries exactly policy_id, query_type and product_name, with query_type
\* "full" unless the query asks for coverage or proposer details; no other
\* tool type is emitted.
C17_RecommenderOutputShape ==
    (probe.result # <<>> /\ probe.query # None) =>
        LET r == probe.result
            q == Lower(probe.query)
        IN  /\ Len(r) \in {1, 2}
            /\ r[Len(r)] = [tool_type |-> VECTOR_SEARCH,
                            parameters |-> [query |-> probe.query, top_k |-> 3]]
            /\ Len(r) = 2 =>
                  /\ r[1].tool_type = USER_POLICY
                  /\ DOMAIN r[1].parameters = {"policy_id", "query_type", "product_name"}
                  /\ r[1].parameters.query_type \in {"full", "coverage", "proposer"}
                  /\ (~Contains(q, "cover") /\ ~Contains(q, "benefit") /\ ~Contains(q, "proposer")
                      /\ ~Contains(q, "my details") /\ ~Contains(q, "personal"))
                        => r[1].parameters.query_type = "full"

\* run has answered a query that names a policy id with a UserPolicy call
\* for that id, of query_type "full", followed by the vector search.
C17_Witness ==
    /\ probe.query = "Policy number trv-1"
    /\ Len(probe.result) = 2
    /\ probe.result[1].parameters.policy_id = "trv-1"
    /\ probe.result[1].parameters.query_type = "full"

\* C18: ActionRecommenderTool.run never raises: called as a tool it is always
\* answered without error, and on an internal error (a query that is no
\* str) its result is exactly one VectorSearch call for the query.  And if
\* the recommender does raise inside the controller, the working tool list
\* stays empty, no tool is run, and the pipeline goes on through intent
\* detection, the mandatory vector search and generation.
C18_RecommenderNeverAborts ==
    LET registered ==
            SelectSeq(SubSeq(tools, 1, ti - 1),
                      LAMBDA c : c.tool_type \in {INTENT_DETECTION, VECTOR_SEARCH,
                                                  ACTION_RECOMMENDER, USER_POLICY})
    IN  /\ \A k \in 1..Len(tool_results) :
              (k <= Len(registered) /\ registered[k].tool_type = ACTION_RECOMMENDER
               /\ DOMAIN registered[k].parameters = {"query"}) =>
                  /\ tool_results[k].error = None
                  /\ Len(tool_results[k].result) >= 1
                  /\ registered[k].parameters.query = None =>
                        tool_results[k].result =
                            << [tool_type |-> VECTOR_SEARCH, parameters |-> [query |-> None]] >>
        /\ rec_outcome = "raises" =>
              /\ tools = <<>>
              /\ tool_results = <<>>
              /\ pc \in {"intent", "search", "fuse", "generate", "history",
                         "returned", "raised", "validate", "responded"}
              /\ pc \in {"returned", "raised", "validate", "responded"} =>
                    /\ detected_intent # <<>>
                    /\ vector_call = << [query |-> request.question, top_k |-> 3] >>
                    /\ Len(gen_call) = 1

\* process_request ended for a request whose recommender raised, with
\* context from the mandatory vector search.
C18_Witness ==
    /\ rec_outcome = "raises"
    /\ pc \in {"returned", "raised"}
    /\ vector_results # <<>>
    /\ sources # <<>>

(***************************************************************************)
(* The policy lookup.                                                       *)
(***************************************************************************)

\* C19: whenever the supplied policy_id equals the policy_number or the
\* alternative_policy_number of some stored record, the record the lookup
\* returns is one matched by policy id, even if a record stored earlier
\* matches the supplied product_name or user_name.
C19_PolicyIdTakesPrecedence ==
    LET idMatch(rec) ==
            /\ "policy_details" \in DOMAIN rec
            /\ \/ Get(rec.policy_details, "policy_number", "") = probe.policy_id
               \/ Get(rec.policy_details, "alternative_policy_number", "") = probe.policy_id
    IN  (/\ probe.result # <<>>
         /\ probe.query_type = "full"
         /\ probe.policy_id # None
         /\ \E i \in 1..Len(UserDetails) : idMatch(UserDetails[i]))
            => idMatch(probe.result.result)

\* C20: UserPolicyTool.run returns a map with exactly result and error.
\* When no stored record matches, it is {result: {}, error: "No matching
\* policy found"}.  When a record matches, error is None and result is that
\* whole record for query_type full, and a map holding only the coverages,
\* proposer_details, policy_details or insured_details field of it for
\* query_type coverage, proposer, policy or insured.
C20_UserPolicyRunResult ==
    probe.result # <<>> =>
        LET r == probe.result
            matching == {i \in 1..Len(UserDetails) :
                            RecordMatches(UserDetails[i], probe.policy_id,
                                          probe.user_name, probe.product_name)}
            field == CASE probe.query_type = "coverage" -> "coverages"
                       [] probe.query_type = "proposer" -> "proposer_details"
                       [] probe.query_type = "policy" -> "policy_details"
                       [] probe.query_type = "insured" -> "insured_details"
                       [] OTHER -> "none"
        IN  /\ DOMAIN r = {"result", "error"}
            /\ matching = {} => r = [result |-> <<>>, error |-> "No matching policy found"]
            /\ matching # {} =>
                  /\ r.error = None
                  /\ probe.query_type = "full" =>
                        \E i \in matching : r.result = UserDetails[i]
                  /\ field # "none" =>
                        \E i \in matching :
                            /\ DOMAIN r.result = {field}
                            /\ field \in DOMAIN UserDetails[i] =>
                                  r.result[field] = UserDetails[i][field]
                            /\ field \notin DOMAIN UserDetails[i] => r.result[field] = <<>>

\* run has answered an "insured" query, found by the alternative policy
\* number, with the insured details only.
C20_Witness ==
    /\ probe.result # <<>>
    /\ probe.policy_id = "alt-2"
    /\ probe.query_type = "insured"
    /\ probe.result.error = None
    /\ probe.result.result = [insured_details |-> [name |-> "Ravi Rao"]]

(***************************************************************************)
(* The coverage-detail lookup.                                              *)
(***************************************************************************)

\* C21: for a policy_id that matches a stored record, get_coverage_details
\* returns all coverages of the record with error None when coverage_name is
\* absent, the first coverage whose cover_name contains coverage_name
\* (case-insensitively) with error None when there is one, and an error only
\* when no coverage matches.
C21_CoverageDetailsOfMatchedPolicy ==
    LET idMatch(rec) ==
            \/ Get(Get(rec, "policy_details", <<>>), "policy_number", None) = probe.policy_id
            \/ Get(Get(rec, "policy_details", <<>>), "alternative_policy_number", None)
                  = probe.policy_id
        hits == {i \in 1..Len(UserDetails) : idMatch(UserDetails[i])}
    IN  (/\ probe.result # <<>>
         /\ probe.policy_id # None
         /\ hits # {})
            => LET rec == UserDetails[CHOOSE i \in hits : \A j \in hits : i <= j]
                   coverages == Get(rec, "coverages", <<>>)
                   named == {k \in 1..Len(coverages) :
                                Contains(Lower(Get(coverages[k], "cover_name", "")),
                                         Lower(probe.coverage_name))}
               IN  IF probe.coverage_name \in {None, ""}
                   THEN probe.result = [result |-> [coverages |-> coverages], error |-> None]
                   ELSE IF named # {}
                   THEN probe.result =
                          [result |-> [coverage |->
                              coverages[CHOOSE k \in named : \A j \in named : k <= j]],
                           error |-> None]
                   ELSE probe.result.error # None

(***************************************************************************)
(* The order of the pipeline's steps within one request.                    *)
(***************************************************************************)

\* C22 (as stated): within one request the steps occur in the order session
\* resolution, Action Recommender, Intent Detector, tool list in list order,
\* mandatory vector search, generation, history append; the Action
\* Recommender is invoked if and only if the caller supplied no tools, and
\* the Intent Detector is invoked exactly once.  An invocation by a call of
\* the working tool list counts as an invocation.
C22_StepsInOrderEachOnce ==
    LET ran(tt) == {k \in 1..Len(tool_results) :
                        tool_results[k].tool_type = tt /\ tool_results[k].error = None}
        intentRuns == (IF detected_intent # <<>> THEN 1 ELSE 0)
                          + Cardinality(ran(INTENT_DETECTION))
        recommenderRan == rec_outcome # None \/ ran(ACTION_RECOMMENDER) # {}
    IN  pc \in {"search", "fuse", "generate", "history", "returned", "raised"} =>
            /\ intentRuns = 1
            /\ recommenderRan <=> request.tools = <<>>

\* C22 (amended): within one request the controller's own steps occur in the
\* order session resolution, recommender step (taken if and only if the
\* caller supplied no tools), intent-detection step (taken exactly once,
\* whatever the recommender did), tool list in list order, mandatory vector
\* search, generation, history append.  Each step's effect is present
\* exactly from the end of that step on.
C22_PipelineStepsInOrder ==
    LET stage == CASE pc = "resolve" -> 1
                   [] pc = "recommend" -> 2
                   [] pc = "intent" -> 3
                   [] pc = "tools" -> 4
                   [] pc = "search" -> 5
                   [] pc = "fuse" -> 6
                   [] pc = "generate" -> 7
                   [] pc = "history" -> 8
                   [] pc \in {"returned", "raised"} -> 9
                   [] OTHER -> 0
        registered(k) == tools[k].tool_type \in RegisteredTools
        done == {k \in 1..(ti - 1) : registered(k)}
        rank(k) == Cardinality({j \in done : j <= k})
        entry_history == IF session_id \in DOMAIN entry_sessions
                         THEN entry_sessions[session_id].history ELSE <<>>
    IN  stage > 0 =>
            /\ (session_id # None) <=> stage >= 2
            /\ (rec_outcome # None) => (stage >= 3 /\ request.tools = <<>>)
            /\ (stage >= 3 /\ request.tools = <<>>) => rec_outcome # None
            /\ (detected_intent # <<>>) <=> stage >= 4
            /\ stage < 4 => ti = 1
            /\ stage > 4 => ti = Len(tools) + 1
            /\ Len(tool_results) = Cardinality(done)
            /\ \A k \in done : tool_results[rank(k)].tool_type = tools[k].tool_type
            /\ Len(vector_call) = IF stage >= 6 THEN 1 ELSE 0
            /\ Len(gen_call) = IF stage >= 8 THEN 1 ELSE 0
            /\ stage \in 2..8 => sessions[session_id].history = entry_history
            /\ stage = 9 => Len(sessions[session_id].history) = Len(entry_history) + 2

\* A request with an explicit tool list has gone through the whole pipeline
\* and its two turns are stored.
C22_Witness ==
    /\ pc = "returned"
    /\ Len(request.tools) = 4
    /\ Len(tool_results) = 3
    /\ rec_outcome = None
    /\ Len(sessions[session_id].history) = 2

(***************************************************************************)
(* No retries.                                                              *)
(***************************************************************************)

\* C23 (as stated): within one request a call to an external service that
\* failed is never issued again, the intent service and the Generation
\* Engine are each called at most once, and a failed call is replaced by
\* its default value (empty list, null sentinel, apology string).
C23_EachServiceCalledOnce ==
    LET to(s) == {k \in 1..Len(calls) : calls[k].to = s}
    IN  /\ Cardinality(to("intent_service")) <= 1
        /\ Cardinality(to("generation_engine")) <= 1
        /\ \A i \in 1..Len(calls) : \A j \in (i + 1)..Len(calls) :
              calls[i].failed =>
                  ~(calls[j].to = calls[i].to /\ calls[j].query = calls[i].query)

\* C23 (amended): no step is retried.  Each pipeline step calls its service
\* at most once, the Generation Engine is called at most once in all, each
\* executed IntentDetection or VectorSearch call of the tool list makes
\* exactly one call, and a failed call is replaced by its default value:
\* the null sentinel for the intent service, the empty list for the vector
\* index, the apology string for the Generation Engine.
C23_NoStepRetried ==
    LET byPipeline(s) == SelectSeq(calls, LAMBDA c : c.to = s /\ c.by = "pipeline")
        byTool(s) == SelectSeq(calls, LAMBDA c : c.to = s /\ c.by = "tool")
        executed(tt) ==
            SelectSeq(tool_results, LAMBDA r : r.tool_type = tt /\ r.error = None)
        intent == byPipeline("intent_service")
        search == byPipeline("vector_index")
        generation == byPipeline("generation_engine")
    IN  /\ Len(intent) <= 1 /\ Len(search) <= 1 /\ Len(generation) <= 1
        /\ byTool("generation_engine") = <<>>
        /\ Len(byTool("intent_service")) = Len(executed(INTENT_DETECTION))
        /\ Len(byTool("vector_index")) = Len(executed(VECTOR_SEARCH))
        /\ (Len(intent) = 1 /\ intent[1].failed) => detected_intent = << SentinelIntent >>
        /\ (Len(search) = 1 /\ search[1].failed) => vector_results = <<>>
        /\ (Len(generation) = 1 /\ generation[1].failed) => response_text = ApologyAnswer
        /\ \A k \in 1..Len(byTool("intent_service")) :
              byTool("intent_service")[k].failed =>
                  executed(INTENT_DETECTION)[k].result = << SentinelIntent >>
        /\ \A k \in 1..Len(byTool("vector_index")) :
              byTool("vector_index")[k].failed => executed(VECTOR_SEARCH)[k].result = <<>>

\* A request all of whose calls failed: the intent service for the pipeline
\* and for an explicit IntentDetection call, the vector index and the
\* Generation Engine; the pipeline has run to its end.
C23_Witness ==
    /\ pc = "raised"
    /\ Len(calls) = 4
    /\ \A k \in 1..4 : calls[k].failed
    /\ tool_results = << ToolResponse(INTENT_DETECTION, << SentinelIntent >>, None) >>
    /\ response_text = ApologyAnswer

(***************************************************************************)
(* Requests handled together.                                               *)
(***************************************************************************)

\* C24: when the requests accepted together name different sessions (or
\* none, and so get new ones), the history of the session a request used
\* is, from the request's completion on, the history the session would have
\* had the request run alone: what it held before, then the request's two
\* turns.  No step of a request changes or removes the entry of a session
\* other than the one the request uses.
C24_DifferentSessionsIndependent ==
    [][LET Independent(requests, store) ==
               LET ids == DOMAIN requests
                   different == \A i \in ids : \A j \in ids \ {i} :
                                   \/ requests[i].session_id = None
                                   \/ requests[i].session_id # requests[j].session_id
                   before(id) == IF requests[id].session_id \in DOMAIN KnownSessions
                                 THEN KnownSessions[requests[id].session_id].history
                                 ELSE <<>>
                   alone(id) ==
                       before(id) \o Turns(requests[id].question, requests[id].answer)
               IN  different =>
                       \A id \in ids :
                           requests[id].state = "done" =>
                               /\ requests[id].used \in DOMAIN store
                               /\ store[requests[id].used].history = alone(id)
                               /\ \A j \in ids \ {id} :
                                     requests[j].state = "done" =>
                                         requests[j].used # requests[id].used
       IN  /\ Independent(inflight', sessions')
           /\ \A s \in DOMAIN sessions :
                /\ s \in DOMAIN sessions'
                /\ sessions'[s] # sessions[s] => s = session_id]_vars

\* Two requests for the two known sessions are both done, the one accepted
\* second having run first, and a third session has not appeared.
C24_Witness ==
    /\ DOMAIN inflight = {1, 2}
    /\ inflight[1].session_id = Uuid(1)
    /\ inflight[2].session_id = Uuid(2)
    /\ inflight[1].state = "done" /\ inflight[2].state = "done"
    /\ inflight[2].turn = 1
    /\ Len(sessions[Uuid(1)].history) = 4
    /\ Len(sessions[Uuid(2)].history) = 4

\* C29: when the requests accepted together all name the same known
\* session, then between handlers the session's history is what it held
\* before followed by two turns per request handled so far, and the turns
\* of the request handled k-th are the (2k-1)-th and 2k-th of them: the user
\* turn with its question, immediately followed by the assistant turn with
\* the answer given to that request.
C29_SameSessionTurnsPaired ==
    LET ids == DOMAIN inflight
        done == {id \in ids : inflight[id].state = "done"}
    IN  \A sid \in DOMAIN KnownSessions :
            (/\ pc = "idle"
             /\ ids # {}
             /\ \A id \in ids : inflight[id].session_id = sid)
                => LET history == sessions[sid].history
                       base == Len(KnownSessions[sid].history)
                   IN  /\ Len(history) = base + 2 * Cardinality(done)
                       /\ SubSeq(history, 1, base) = KnownSessions[sid].history
                       /\ \A id \in done :
                             /\ inflight[id].used = sid
                             /\ inflight[id].turn \in 1..Cardinality(done)
                             /\ history[base + 2 * inflight[id].turn - 1] =
                                   [role |-> "user", content |-> inflight[id].question]
                             /\ history[base + 2 * inflight[id].turn] =
                                   [role |-> "assistant", content |-> inflight[id].answer]
                       /\ \A i \in done : \A j \in done \ {i} :
                             inflight[i].turn # inflight[j].turn

\* Two requests with different questions for the same known session are
\* both done, the one accepted second having run first and having got the
\* apology while the other got an answer.
C29_Witness ==
    /\ pc = "idle"
    /\ DOMAIN inflight = {1, 2}
    /\ inflight[1].session_id = Uuid(1) /\ inflight[2].session_id = Uuid(1)
    /\ inflight[1].question # inflight[2].question
    /\ inflight[1].state = "done" /\ inflight[2].state = "done"
    /\ inflight[2].turn = 1
    /\ inflight[2].answer = ApologyAnswer
    /\ inflight[1].answer = GeneratedAnswer
    /\ Len(sessions[Uuid(1)].history) = 6

(***************************************************************************)
(* The policy-to-prose renderer.                                            *)
(***************************************************************************)

\* C25: for a record with any subset of the four optional fields,
\* _format_policy_data returns a text; the text has the heading POLICY
\* DETAILS:, PROPOSER DETAILS:, INSURED DETAILS: or COVERAGES: exactly when
\* the record has the corresponding field, the headings present stand in
\* that order, and every coverage entry is rendered with its cover_name (or
\* "Unknown") and its benefits, sum_insured and deductibles (or "Not
\* specified").
C25_RendererTotalAndOrdered ==
    probe.done =>
        LET text == probe.result
            record == probe.policy_data
            At(sub, i) == i + Len(sub) - 1 <= Len(text) /\ SubSeq(text, i, i + Len(sub) - 1) = sub
            Places(sub) == {i \in 1..Len(text) : At(sub, i)}
            Heading == [policy_details |-> "POLICY DETAILS:",
                        proposer_details |-> "PROPOSER DETAILS:",
                        insured_details |-> "INSURED DETAILS:",
                        coverages |-> "COVERAGES:"]
            Order == << "policy_details", "proposer_details", "insured_details", "coverages" >>
            Entry(c) ==
                "\n- " \o (IF "cover_name" \in DOMAIN c THEN c.cover_name ELSE "Unknown")
                \o "\n  Benefits: "
                \o (IF "benefits" \in DOMAIN c THEN c.benefits ELSE "Not specified")
                \o "\n  Sum Insured: "
                \o (IF "sum_insured" \in DOMAIN c THEN c.sum_insured ELSE "Not specified")
                \o "\n  Deductibles: "
                \o (IF "deductibles" \in DOMAIN c THEN c.deductibles ELSE "Not specified")
        IN  /\ text \in STRING
            /\ \A f \in PolicyFields :
                  Cardinality(Places(Heading[f])) = IF f \in DOMAIN record THEN 1 ELSE 0
            /\ \A a \in 1..4 : \A b \in (a + 1)..4 :
                  (Order[a] \in DOMAIN record /\ Order[b] \in DOMAIN record) =>
                      \A i \in Places(Heading[Order[a]]) :
                          \A j \in Places(Heading[Order[b]]) : i < j
            /\ "coverages" \in DOMAIN record =>
                  \A k \in 1..Len(record.coverages) :
                      \E i \in Places(Entry(record.coverages[k])) :
                          \A j \in Places(Heading.coverages) : j < i

\* A record without policy_details and insured_details, with one coverage
\* that has no field at all, has been rendered.
C25_Witness ==
    /\ probe.done
    /\ DOMAIN probe.policy_data = {"proposer_details", "coverages"}
    /\ probe.policy_data.coverages = << <<>> >>
    /\ probe.result =
          "\nPROPOSER DETAILS:\n- Name: Asha Rao\n- Email Id: asha@mail.in\n\nCOVERAGES:"
          \o "\n\n- Unknown\n  Benefits: Not specified\n  Sum Insured: Not specified"
          \o "\n  Deductibles: Not specified"

(***************************************************************************)
(* The session id the handler reports, and the growth of the session map.   *)
(***************************************************************************)

\* C26: when the handler of /mcp/query returns its answer, the session_id
\* in it is a key of the session map and names the session the controller
\* used for the request, the one whose history received the request's two
\* turns, also when the request carried no session_id or an unknown one.
C26_ReportedSessionIsTheOneUsed ==
    pc = "validate" =>
        /\ http.body.session_id \in DOMAIN sessions
        /\ http.body.session_id = session_id
        /\ Len(sessions[http.body.session_id].history) >= 2
        /\ SubSeq(sessions[http.body.session_id].history,
                  Len(sessions[http.body.session_id].history) - 1,
                  Len(sessions[http.body.session_id].history))
              = Turns(request.question, http.body.answer)

\* C27: handling one request adds at most one session to the session map:
\* exactly one when a request that passes validation has no session_id or an
\* unknown one, none when the session_id is known; no session is removed,
\* and the session a completed request used does not have an empty history.
C27_AtMostOneSessionPerRequest ==
    LET added == DOMAIN sessions \ DOMAIN entry_sessions
    IN  /\ DOMAIN entry_sessions \subseteq DOMAIN sessions
        /\ Cardinality(added) <= 1
        /\ (pc = "responded" /\ ~IsBlank(request.question)) =>
              /\ Cardinality(added) =
                    IF NeedsNewSession(request.session_id, entry_sessions) THEN 1 ELSE 0
              /\ session_id \in DOMAIN sessions
              /\ sessions[session_id].history # <<>>

(***************************************************************************)
(* Requests without a usable policy result.                                 *)
(***************************************************************************)

\* C28 (as stated): if no tool result of the request is a UserPolicy result
\* with no error and a non-empty payload, the context given to generation is
\* exactly the mandatory vector-search result list and the sources contain
\* no {"User Policy", "Personal Policy Details"} entry.
C28_NoPolicyNoPolicySource ==
    LET usable(r) == /\ r.tool_type = USER_POLICY
                     /\ r.error = None
                     /\ "result" \in DOMAIN r.result
                     /\ DOMAIN r.result.result # {}
        user_source == [name |-> "User Policy", type |-> "Personal Policy Details"]
    IN  (/\ pc \in {"history", "returned", "raised"}
         /\ \A k \in 1..Len(tool_results) : ~usable(tool_results[k]))
            => /\ gen_call[1].context = vector_results
               /\ \A k \in 1..Len(sources) : sources[k] # user_source

\* C28 (amended): under the same condition the context given to generation
\* is exactly the mandatory vector-search result list, and the sources
\* contain a {"User Policy", "Personal Policy Details"} entry only if an
\* item of that vector-search result list itself has that source and
\* doc_type.
C28_NoPolicyOnlyVectorContext ==
    LET usable(r) == /\ r.tool_type = USER_POLICY
                     /\ r.error = None
                     /\ "result" \in DOMAIN r.result
                     /\ DOMAIN r.result.result # {}
        user_source == [name |-> "User Policy", type |-> "Personal Policy Details"]
        labelled(item) == /\ Get(item, "source", "Unknown") = user_source.name
                          /\ Get(item, "doc_type", "Unknown") = user_source.type
    IN  (/\ pc \in {"history", "returned", "raised"}
         /\ \A k \in 1..Len(tool_results) : ~usable(tool_results[k]))
            => /\ gen_call[1].context = vector_results
               /\ (\E k \in 1..Len(sources) : sources[k] = user_source)
                     => \E i \in 1..Len(vector_results) : labelled(vector_results[i])

\* A UserPolicy call was made and found no policy, another failed to bind,
\* and generation got the three vector-search items only.
C28_Witness ==
    /\ pc = "history"
    /\ Len(tool_results) = 3
    /\ tool_results[1].tool_type = USER_POLICY
    /\ tool_results[1].result = [result |-> <<>>, error |-> "No matching policy found"]
    /\ tool_results[2].error # None
    /\ Len(vector_results) = 3
    /\ gen_call[1].context = vector_results
    /\ Len(sources) = 2

(***************************************************************************)
(* Document chunking: chunk_text of app/utils/pdf_processor.py, one loop    *)
(* iteration per step.  Texts are built from a letter, a sentence end and   *)
(* a paragraph end, so that the three patterns the break search looks for   *)
(* (". ", ".\n" and "\n\n") fall at every offset of a chunk; chunk_size     *)
(* and overlap range over chunk_size >= 1, 0 <= overlap <= chunk_size // 2. *)
(***************************************************************************)
MaxPieces == 5
MaxChunkSize == 5

TextPieces == {"a", ". ", ".\n\n"}

RECURSIVE ConcatFrom(_, _)
ConcatFrom(pieces, k) ==
    IF k > Len(pieces) THEN "" ELSE pieces[k] \o ConcatFrom(pieces, k + 1)

Texts == {ConcatFrom(p, 1) : p \in UNION {[1..n -> TextPieces] : n \in 0..MaxPieces}}

Overlaps(chunk_size) == 0..(chunk_size \div 2)

max(a, b) == IF a >= b THEN a ELSE b

min(a, b) == IF a <= b THEN a ELSE b

\* str.rfind: the highest 0-based index at which sub starts in s, or -1.
rfind(s, sub) ==
    LET hits == {i \in 0..(Len(s) - Len(sub)) : SubSeq(s, i + 1, i + Len(sub)) = sub}
    IN  IF hits = {} THEN -1 ELSE CHOOSE i \in hits : \A j \in hits : j <= i

\* text[start:end] for 0 <= start <= end <= len(text).
Slice(text, start, end) == SubSeq(text, start + 1, end)

last_period(chunk) == max(rfind(chunk, ". "), rfind(chunk, ".\n"))

last_newline(chunk) == rfind(chunk, "\n\n")

break_point(chunk) == max(last_period(chunk), last_newline(chunk))

NaturalBreakAnywhere(bp, chunk_size) == bp # -1

NaturalBreak(bp, chunk_size) == bp # -1 /\ bp > chunk_size \div 2

\* The end index of the chunk that starts at start.
ChunkEnd(text, start, chunk_size) ==
    LET end == min(start + chunk_size, Len(text))
        chunk == Slice(text, start, end)
    IN  IF start > 0 /\ end < Len(text) /\ NaturalBreak(break_point(chunk), chunk_size)
        THEN start + break_point(chunk) + 1
        ELSE end

NextStart(end, overlap, text_len) == IF end < text_len THEN end - overlap ELSE text_len

InitChunk ==
    /\ sessions = <<>>
    /\ minted = 0
    /\ served = 0
    /\ pydantic_v1 = FALSE
    /\ pc = "probe"
    /\ request = NoRequest
    /\ entry_sessions = sessions
    /\ inflight = <<>>
    /\ \E t \in Texts, c \in 1..MaxChunkSize :
          \E o \in Overlaps(c) :
              probe = [text |-> t, chunk_size |-> c, overlap |-> o, start |-> 0,
                       chunks |-> <<>>, spans |-> <<>>, at |-> "loop"]
    /\ LocalsInit

\* One pass through the body of `while start < text_len`; spans records the
\* (start, end) pair of each appended chunk.
ChunkIterate ==
    /\ pc = "probe"
    /\ probe.at = "loop"
    /\ probe.start < Len(probe.text)
    /\ LET end == ChunkEnd(probe.text, probe.start, probe.chunk_size)
       IN  probe' = [probe EXCEPT
                        !.chunks = Append(@, Slice(probe.text, probe.start, end)),
                        !.spans = Append(@, [start |-> probe.start, end |-> end]),
                        !.start = NextStart(end, probe.overlap, Len(probe.text))]
    /\ UNCHANGED << sessions, minted, served, pydantic_v1, pc, request, session_id, tools,
                    ti, detected_intent, tool_results, vector_results, context_results,
                    user_policy_source_added, response_text, sources, mcp_response, http,
                    entry_sessions, vector_call, gen_call, rec_outcome, calls, inflight >>

\* `if not text: return []` and the return after the loop.
ChunkReturn ==
    /\ pc = "probe"
    /\ probe.at = "loop"
    /\ ~(probe.start < Len(probe.text))
    /\ probe' = [probe EXCEPT !.at = "returned"]
    /\ UNCHANGED << sessions, minted, served, pydantic_v1, pc, request, session_id, tools,
                    ti, detected_intent, tool_results, vector_results, context_results,
                    user_policy_source_added, response_text, sources, mcp_response, http,
                    entry_sessions, vector_call, gen_call, rec_outcome, calls, inflight >>

NextChunk == ChunkIterate \/ ChunkReturn

\* chunk_text is an ordinary function call: once entered it runs on.
SpecChunk == InitChunk /\ [][NextChunk]_vars /\ WF_vars(NextChunk)

\* C30: for chunk_size >= 1 and 0 <= overlap <= chunk_size // 2, chunk_text
\* returns for every text; each loop iteration starts strictly after the one
\* before, also when a sentence or paragraph break shortened the chunk, and no
\* later than the end of the chunk before, so the returned chunks cover every
\* character of the text.
C30_ChunkTextTerminatesAndCovers ==
    /\ [](probe.chunk_size >= 1 /\ probe.overlap \in Overlaps(probe.chunk_size) =>
            LET text_len == Len(probe.text)
                spans == probe.spans
                n == Len(probe.spans)
            IN  /\ probe.start <= text_len
                /\ Len(probe.chunks) = n
                /\ \A i \in 1..n :
                      /\ spans[i].start < spans[i].end
                      /\ probe.chunks[i] = Slice(probe.text, spans[i].start, spans[i].end)
                /\ \A i \in 1..(n - 1) :
                      /\ spans[i + 1].start > spans[i].start
                      /\ spans[i + 1].start <= spans[i].end
                /\ n > 0 =>
                      /\ spans[1].start = 0
                      /\ probe.start > spans[n].start
                      /\ probe.start <= spans[n].end
                /\ probe.at = "returned" =>
                      \A k \in 0..(text_len - 1) :
                          \E i \in 1..n : spans[i].start <= k /\ k < spans[i].end)
    /\ <>(probe.at = "returned")

C30_Witness ==
    /\ probe.at = "returned"
    /\ probe.overlap > 0
    /\ Len(probe.chunks) >= 3
    /\ \E i \in 2..Len(probe.spans) :
          /\ probe.spans[i].end < Len(probe.text)
          /\ probe.spans[i].end - probe.spans[i].start < probe.chunk_size

====
